---- MODULE Spec2Model ----
(***************************************************************************)
(* Model of the email normalization engine of the email server:           *)
(* the EmailUtils class of Backend/unipile-email-service.js (htmlToText,  *)
(* extractSender, extractRecipients, generatePreview, processEmail), and   *)
(* categorizeEmail and extractKeyInfo of Backend/email-utils.js.           *)
(*                                                                         *)
(* A JavaScript string is a sequence of one-character strings; a          *)
(* JavaScript value is a record tagged with its kind.  One call of a      *)
(* function is one behaviour: Init draws the function and its arguments,  *)
(* the function's action computes what the code returns (or the exception *)
(* it throws) into ret.                                                    *)
(*                                                                         *)
(* The request handlers of the server that send email, and the requests   *)
(* of the service that normalize what the provider returns, are processes *)
(* with suspension points: pc is the position, local holds the local      *)
(* variables, and trace records what was asked of the provider and of the *)
(* timer, in order.                                                        *)
(***************************************************************************)
EXTENDS Integers, Sequences, FiniteSets, TLC

VARIABLES pc, op, arg, ret, local, trace

vars == <<pc, op, arg, ret, local, trace>>

(***************************************************************************)
(* Bounds of the model.                                                    *)
(***************************************************************************)
\* number of fragments an htmlToText input is concatenated from
MaxFrags == 3
\* number of fragments of a script/style document
MaxBlockFrags == 4
\* number of fragments an attendee string is concatenated from
MaxIdFrags == 4
\* number of keys an attendee object has
MaxKeys == 3
\* number of attendees in an array
MaxAttendees == 3
\* number of fragments a plain body is concatenated from
MaxPlainFrags == 3
\* largest maxLength a preview is asked for
MaxLength == 6

(***************************************************************************)
(* JavaScript values.                                                      *)
(***************************************************************************)
Undefined == [t |-> "undefined"]
Null == [t |-> "null"]
Str(s) == [t |-> "string", s |-> s]
Num(n) == [t |-> "number", n |-> n]
Bool(b) == [t |-> "boolean", b |-> b]
\* f: a function from the keys the object has to their values
Obj(f) == [t |-> "object", f |-> f]
\* a: the sequence of elements
Arr(a) == [t |-> "array", a |-> a]
\* what a throwing call leaves instead of a value
Thrown(e) == [t |-> "thrown", e |-> e]
\* ret before the call has returned
NoValue == [t |-> "none"]

\* the typeof operator
TypeOf(v) ==
    CASE v.t = "null" -> "object"
      [] v.t = "array" -> "object"
      [] OTHER -> v.t

\* a test for undefined and null in the place of ToBoolean
Truthy_NotNullish(v) == v.t \notin {"undefined", "null"}

\* ToBoolean: what `!v`, `v || w` and `v ? a : b` test
Truthy(v) ==
    CASE v.t = "undefined" -> FALSE
      [] v.t = "null" -> FALSE
      [] v.t = "string" -> v.s # <<>>
      [] v.t = "number" -> v.n # 0
      [] v.t = "boolean" -> v.b
      [] OTHER -> TRUE

\* the ?? operator in the place of ||: only undefined and null give way
Or_Nullish(v, w) == IF v.t \in {"undefined", "null"} THEN w ELSE v

\* the || operator
Or(v, w) == IF Truthy(v) THEN v ELSE w

\* obj.key: undefined when the object has no such key
Get(o, k) == IF o.t = "object" /\ k \in DOMAIN o.f THEN o.f[k] ELSE Undefined

(***************************************************************************)
(* Strings.                                                                *)
(***************************************************************************)
Min(S) == CHOOSE x \in S : \A y \in S : x <= y
Max(S) == CHOOSE x \in S : \A y \in S : x >= y

\* the characters \s matches
IsSpace(c) == c \in {" ", "\n", "\r", "\t"}

\* the characters `.` does not match without the s flag
IsLineTerminator(c) == c \in {"\n", "\r"}

\* the i flag: letters compare by their lower-case form
Lower(c) ==
    CASE c = "S" -> "s" [] c = "C" -> "c" [] c = "R" -> "r" [] c = "I" -> "i"
      [] c = "P" -> "p" [] c = "T" -> "t" [] c = "Y" -> "y" [] c = "L" -> "l"
      [] c = "E" -> "e" [] c = "A" -> "a" [] c = "B" -> "b" [] c = "X" -> "x"
      [] c = "D" -> "d" [] c = "F" -> "f" [] c = "G" -> "g" [] c = "H" -> "h"
      [] c = "J" -> "j" [] c = "K" -> "k" [] c = "M" -> "m" [] c = "N" -> "n"
      [] c = "O" -> "o" [] c = "Q" -> "q" [] c = "U" -> "u" [] c = "V" -> "v"
      [] c = "W" -> "w" [] c = "Z" -> "z"
      [] OTHER -> c

\* s[i..j], empty when j < i
Sub(s, i, j) == IF j < i THEN <<>> ELSE SubSeq(s, i, j)

\* pat occurs in s at index i
MatchAt(s, i, pat) ==
    /\ i + Len(pat) - 1 <= Len(s)
    /\ \A k \in 1..Len(pat) : s[i + k - 1] = pat[k]

\* pat occurs in s at index i, letters compared case-insensitively
MatchAtCI(s, i, pat) ==
    /\ i + Len(pat) - 1 <= Len(s)
    /\ \A k \in 1..Len(pat) : Lower(s[i + k - 1]) = Lower(pat[k])

\* the first index >= from where pat occurs, 0 when there is none
IndexOf(s, from, pat) ==
    LET S == {k \in from..Len(s) : MatchAt(s, k, pat)}
    IN IF S = {} THEN 0 ELSE Min(S)

IndexOfCI(s, from, pat) ==
    LET S == {k \in from..Len(s) : MatchAtCI(s, k, pat)}
    IN IF S = {} THEN 0 ELSE Min(S)

\* pat occurs somewhere in s
Contains(s, pat) == IndexOf(s, 1, pat) # 0

RECURSIVE ReplaceFrom(_, _, _, _)
ReplaceFrom(s, i, pat, rep) ==
    IF i > Len(s) THEN <<>>
    ELSE IF MatchAt(s, i, pat) THEN rep \o ReplaceFrom(s, i + Len(pat), pat, rep)
    ELSE <<s[i]>> \o ReplaceFrom(s, i + 1, pat, rep)

\* s.replace(/pat/g, rep) for a literal pat: one left-to-right pass, the
\* replacement text is not scanned again
ReplaceAll(s, pat, rep) == ReplaceFrom(s, 1, pat, rep)

RECURSIVE RemoveBlocksFrom(_, _, _, _)
RemoveBlocksFrom(s, i, open, close) ==
    IF i > Len(s) THEN <<>>
    ELSE LET g == IF MatchAtCI(s, i, open) THEN IndexOf(s, i + Len(open), <<">">>) ELSE 0
             e == IF g = 0 THEN 0 ELSE IndexOfCI(s, g + 1, close)
         IN IF e # 0 THEN RemoveBlocksFrom(s, e + Len(close), open, close)
            ELSE <<s[i]>> \o RemoveBlocksFrom(s, i + 1, open, close)

\* s.replace(/<open[^>]*>.*?<\/close>/gis, ''): from each `<open`, through the
\* first `>` after it, to the first closing tag after that
RemoveBlocks(s, open, close) == RemoveBlocksFrom(s, 1, open, close)

RECURSIVE StripTagsFrom(_, _)
StripTagsFrom(s, i) ==
    IF i > Len(s) THEN <<>>
    ELSE LET q == IF s[i] = "<" /\ i + 1 <= Len(s) /\ s[i + 1] # ">"
                  THEN IndexOf(s, i + 2, <<">">>) ELSE 0
         IN IF q # 0 THEN <<" ">> \o StripTagsFrom(s, q + 1)
            ELSE <<s[i]>> \o StripTagsFrom(s, i + 1)

\* s.replace(/<[^>]+>/g, ' ')
StripTags(s) == StripTagsFrom(s, 1)

\* s.replace(/\s+/g, ' '): the first character of a whitespace run becomes
\* a space, the others of the run go
CollapseSpaces(s) ==
    SelectSeq([k \in 1..Len(s) |->
                  IF ~IsSpace(s[k]) THEN s[k]
                  ELSE IF k > 1 /\ IsSpace(s[k - 1]) THEN "" ELSE " "],
              LAMBDA c : c # "")

\* s.replace(/\r?\n/g, ' '): a line feed becomes a space, a carriage return
\* right before a line feed goes
ReplaceNewlines(s) ==
    SelectSeq([k \in 1..Len(s) |->
                  IF s[k] = "\n" THEN " "
                  ELSE IF s[k] = "\r" /\ k < Len(s) /\ s[k + 1] = "\n" THEN "" ELSE s[k]],
              LAMBDA c : c # "")

\* s.trim()
Trim(s) ==
    LET N == {k \in 1..Len(s) : ~IsSpace(s[k])}
    IN IF N = {} THEN <<>> ELSE SubSeq(s, Min(N), Max(N))

(***************************************************************************)
(* EmailUtils.htmlToText                                                   *)
(***************************************************************************)
ScriptOpen == <<"<", "s", "c", "r", "i", "p", "t">>
ScriptClose == <<"<", "/", "s", "c", "r", "i", "p", "t", ">">>
StyleOpen == <<"<", "s", "t", "y", "l", "e">>
StyleClose == <<"<", "/", "s", "t", "y", "l", "e", ">">>

\* the script and style passes, then the tag pass
StripMarkup(s) ==
    StripTags(RemoveBlocks(RemoveBlocks(s, ScriptOpen, ScriptClose), StyleOpen, StyleClose))

\* the character U+0060, which a string of the model cannot spell
Backtick == "GRAVE"

\* the entity passes, in the order the code applies them
DecodeEntities(s) ==
    LET e1 == ReplaceAll(s, <<"&", "n", "b", "s", "p", ";">>, <<" ">>)
        e2 == ReplaceAll(e1, <<"&", "a", "m", "p", ";">>, <<"&">>)
        e3 == ReplaceAll(e2, <<"&", "l", "t", ";">>, <<"<">>)
        e4 == ReplaceAll(e3, <<"&", "g", "t", ";">>, <<">">>)
        e5 == ReplaceAll(e4, <<"&", "q", "u", "o", "t", ";">>, <<"\"">>)
        e6 == ReplaceAll(e5, <<"&", "#", "3", "9", ";">>, <<"'">>)
        e7 == ReplaceAll(e6, <<"&", "a", "p", "o", "s", ";">>, <<"'">>)
        e8 == ReplaceAll(e7, <<"&", "#", "x", "2", "7", ";">>, <<"'">>)
        e9 == ReplaceAll(e8, <<"&", "#", "x", "2", "F", ";">>, <<"/">>)
        e10 == ReplaceAll(e9, <<"&", "#", "x", "6", "0", ";">>, <<Backtick>>)
    IN ReplaceAll(e10, <<"&", "#", "x", "3", "D", ";">>, <<"=">>)

\* the whitespace passes and the trim
CleanSpaces(s) == Trim(ReplaceNewlines(CollapseSpaces(s)))

\* htmlToText with the whitespace collapsed before the tags are replaced by
\* spaces, and not after
HtmlToTextChars_SpacesFirst(s) ==
    Trim(DecodeEntities(StripTags(CollapseSpaces(
        RemoveBlocks(RemoveBlocks(s, ScriptOpen, ScriptClose), StyleOpen, StyleClose)))))

\* htmlToText on the characters of a string
HtmlToTextChars(s) == CleanSpaces(DecodeEntities(StripMarkup(s)))

htmlToText(html) ==
    IF ~Truthy(html) \/ TypeOf(html) # "string" THEN Str(<<>>)
    ELSE Str(HtmlToTextChars(html.s))

(***************************************************************************)
(* EmailUtils.extractSender and EmailUtils.extractRecipients               *)
(***************************************************************************)
Unknown == Str(<<"U", "n", "k", "n", "o", "w", "n">>)
Empty == Str(<<>>)

\* the object literal { email: e, name: n }
Identity(e, n) == Obj([email |-> e, name |-> n])

\* the object branch with identifier looked up before email
ObjectIdentity_IdentifierFirst(attendeeObj) ==
    Identity(
        Or(Get(attendeeObj, "identifier"), Or(Get(attendeeObj, "email"),
            Or(Get(attendeeObj, "address"), Or(Get(attendeeObj, "mail"), Unknown)))),
        Or(Get(attendeeObj, "name"), Or(Get(attendeeObj, "display_name"),
            Or(Get(attendeeObj, "displayName"), Or(Get(attendeeObj, "personal"),
                Or(Get(attendeeObj, "full_name"), Or(Get(attendeeObj, "fullName"), Empty)))))))

\* the object branch: two chains of ||
ObjectIdentity(attendeeObj) ==
    Identity(
        Or(Get(attendeeObj, "email"), Or(Get(attendeeObj, "identifier"),
            Or(Get(attendeeObj, "address"), Or(Get(attendeeObj, "mail"), Unknown)))),
        Or(Get(attendeeObj, "name"), Or(Get(attendeeObj, "display_name"),
            Or(Get(attendeeObj, "displayName"), Or(Get(attendeeObj, "personal"),
                Or(Get(attendeeObj, "full_name"), Or(Get(attendeeObj, "fullName"), Empty)))))))

\* the index of the `<` that \s*< reaches from index j: the first character
\* at or after j that is no whitespace, when it is `<`; 0 otherwise
BracketOpen(s, j) ==
    LET N == {k \in j..Len(s) : ~IsSpace(s[k])}
    IN IF N # {} /\ s[Min(N)] = "<" THEN Min(N) ELSE 0

\* the index of the `>` that (.+?)> reaches from the `<` at index p: the first
\* `>` with at least one character before it, none of them a line terminator
BracketClose(s, p) ==
    LET q == IndexOf(s, p + 2, <<">">>)
    IN IF q # 0 /\ \A k \in (p + 1)..(q - 1) : ~IsLineTerminator(s[k]) THEN q ELSE 0

\* s.match(/(.*?)\s*<(.+?)>/): <<i, j, p, q>> with group 1 = s[i..j-1] and
\* group 2 = s[p+1..q-1], or <<>> when there is no match.  The leftmost
\* match takes the first j from which \s*<(.+?)> matches and starts after
\* the last line terminator before j, as `.` matches none.
BracketMatch(s) ==
    LET J == {j \in 1..Len(s) :
                 BracketOpen(s, j) # 0 /\ BracketClose(s, BracketOpen(s, j)) # 0}
    IN IF J = {} THEN <<>>
       ELSE LET j == Min(J)
                T == {k \in 1..(j - 1) : IsLineTerminator(s[k])}
                i == IF T = {} THEN 1 ELSE Max(T) + 1
                p == BracketOpen(s, j)
            IN <<i, j, p, BracketClose(s, p)>>

\* s.replace(/"/g, '')
RemoveQuotes(s) == ReplaceAll(s, <<"\"">>, <<>>)

\* the bracketed branch, for a match m of s
BracketIdentity(s, m) ==
    Identity(Str(Trim(Sub(s, m[3] + 1, m[4] - 1))),
             Str(RemoveQuotes(Trim(Sub(s, m[1], m[2] - 1)))))

\* /^[^\s@]+@[^\s@]+\.[^\s@]+$/.test(s): no whitespace, one `@` that is not
\* first, and a `.` after it with a character on each side
IsEmailAddress(s) ==
    /\ \A k \in 1..Len(s) : ~IsSpace(s[k])
    /\ Cardinality({k \in 1..Len(s) : s[k] = "@"}) = 1
    /\ LET a == IndexOf(s, 1, <<"@">>)
       IN a > 1 /\ \E d \in (a + 2)..(Len(s) - 1) : s[d] = "."

\* extractSender with the single-address test before the bracket match
extractSender_AddressFirst(attendeeObj) ==
    IF ~Truthy(attendeeObj) THEN Identity(Unknown, Empty)
    ELSE IF TypeOf(attendeeObj) = "object" THEN ObjectIdentity(attendeeObj)
    ELSE IF TypeOf(attendeeObj) = "string"
         THEN IF IsEmailAddress(Trim(attendeeObj.s))
              THEN Identity(Str(Trim(attendeeObj.s)), Empty)
              ELSE IF BracketMatch(attendeeObj.s) # <<>>
                   THEN BracketIdentity(attendeeObj.s, BracketMatch(attendeeObj.s))
                   ELSE Identity(Unknown, Str(Trim(attendeeObj.s)))
    ELSE Identity(Unknown, Empty)

extractSender(attendeeObj) ==
    IF ~Truthy(attendeeObj) THEN Identity(Unknown, Empty)
    ELSE IF TypeOf(attendeeObj) = "object" /\ attendeeObj # Null
         THEN ObjectIdentity(attendeeObj)
    ELSE IF TypeOf(attendeeObj) = "string"
         THEN LET emailInBrackets == BracketMatch(attendeeObj.s)
              IN IF emailInBrackets # <<>>
                 THEN BracketIdentity(attendeeObj.s, emailInBrackets)
                 ELSE IF IsEmailAddress(Trim(attendeeObj.s))
                      THEN Identity(Str(Trim(attendeeObj.s)), Empty)
                      ELSE Identity(Unknown, Str(Trim(attendeeObj.s)))
    ELSE Identity(Unknown, Empty)

\* extractRecipients with an attendee equal to an earlier one dropped
extractRecipients_Dedup(attendeesArray) ==
    IF attendeesArray.t # "array" THEN Arr(<<>>)
    ELSE Arr(SelectSeq(
            [i \in 1..Len(attendeesArray.a) |->
                IF \E k \in 1..(i - 1) : attendeesArray.a[k] = attendeesArray.a[i]
                THEN NoValue ELSE extractSender(attendeesArray.a[i])],
            LAMBDA x : x # NoValue))

extractRecipients(attendeesArray) ==
    IF attendeesArray.t # "array" THEN Arr(<<>>)
    ELSE Arr([i \in 1..Len(attendeesArray.a) |-> extractSender(attendeesArray.a[i])])

(***************************************************************************)
(* EmailUtils.generatePreview                                              *)
(***************************************************************************)
\* the default of the maxLength parameter
DefaultMaxLength == 200
\* a plain body is preferred when it is longer than this
MinPlainLength == 10

NoContentAvailable ==
    <<"N", "o", " ", "c", "o", "n", "t", "e", "n", "t", " ",
      "a", "v", "a", "i", "l", "a", "b", "l", "e">>
EmptyMessage == <<"E", "m", "p", "t", "y", " ", "m", "e", "s", "s", "a", "g", "e">>
Ellipsis == <<".", ".", ".">>

\* s.substring(0, n): a negative n counts as 0, one past the end as the length
Substring0(s, n) == Sub(s, 1, IF n < 0 THEN 0 ELSE IF n > Len(s) THEN Len(s) ELSE n)

\* the content generatePreview selects, before it is cleaned
PreviewContent(body, plainBody) ==
    IF Truthy(plainBody) /\ TypeOf(plainBody) = "string" /\ Len(plainBody.s) > MinPlainLength
    THEN plainBody.s
    ELSE IF Truthy(body) /\ TypeOf(body) = "string" THEN htmlToText(body).s
    ELSE <<>>

\* the cleaning of generatePreview: newlines, whitespace runs, trim
PreviewClean(s) == Trim(CollapseSpaces(ReplaceNewlines(s)))

\* generatePreview with content exactly maxLength long truncated too
generatePreview_TruncateAtLimit(body, plainBody, maxLength) ==
    LET max == IF maxLength = Undefined THEN DefaultMaxLength ELSE maxLength.n
        content == PreviewContent(body, plainBody)
        cleaned == PreviewClean(content)
    IN IF content = <<>> THEN Str(NoContentAvailable)
       ELSE IF Len(cleaned) >= max THEN Str(Substring0(cleaned, max) \o Ellipsis)
       ELSE IF cleaned # <<>> THEN Str(cleaned) ELSE Str(EmptyMessage)

generatePreview(body, plainBody, maxLength) ==
    LET max == IF maxLength = Undefined THEN DefaultMaxLength ELSE maxLength.n
        content == PreviewContent(body, plainBody)
        cleaned == PreviewClean(content)
    IN IF content = <<>> THEN Str(NoContentAvailable)
       ELSE IF Len(cleaned) > max THEN Str(Substring0(cleaned, max) \o Ellipsis)
       ELSE IF cleaned # <<>> THEN Str(cleaned) ELSE Str(EmptyMessage)

(***************************************************************************)
(* EmailUtils.processEmail                                                 *)
(***************************************************************************)
\* the words of an average minute of reading
WordsPerMinute == 200

\* s.split(' ').filter(word => word.length > 0).length: the runs of
\* characters other than the space character
WordCount(s) ==
    Cardinality({i \in 1..Len(s) : s[i] # " " /\ (i = 1 \/ s[i - 1] = " ")})

\* the read time with the quotient rounded down, not up
ReadTime_Floor(n) ==
    LET c == n \div WordsPerMinute
    IN IF c > 1 THEN c ELSE 1

\* Math.max(1, Math.ceil(n / 200))
ReadTime(n) ==
    LET c == (n + WordsPerMinute - 1) \div WordsPerMinute
    IN IF c > 1 THEN c ELSE 1

processEmail(email) ==
    LET sender == extractSender(Get(email, "from_attendee"))
        toRecipients == extractRecipients(Or(Get(email, "to_attendees"), Arr(<<>>)))
        ccRecipients == extractRecipients(Or(Get(email, "cc_attendees"), Arr(<<>>)))
        bccRecipients == extractRecipients(Or(Get(email, "bcc_attendees"), Arr(<<>>)))
        replyToRecipients == extractRecipients(Or(Get(email, "reply_to_attendees"), Arr(<<>>)))
        htmlContent == Or(Get(email, "body"), Empty)
        plainTextBody == Or(Get(email, "body_plain"), htmlToText(htmlContent))
        preview == generatePreview(htmlContent, plainTextBody, Num(DefaultMaxLength))
    IN \* plainTextBody.split is not a function unless plainTextBody is a string
       IF TypeOf(plainTextBody) # "string" THEN Thrown("TypeError")
       ELSE Obj([
            id |-> Get(email, "id"),
            subject |-> Or(Get(email, "subject"),
                           Str(<<"N", "o", " ", "S", "u", "b", "j", "e", "c", "t">>)),
            date |-> Get(email, "date"),
            hasAttachments |-> Or(Get(email, "has_attachments"), Bool(FALSE)),
            isRead |-> Bool(Truthy(Get(email, "read_date"))),
            messageId |-> Get(email, "message_id"),
            threadId |-> Get(email, "thread_id"),
            providerId |-> Get(email, "provider_id"),
            from |-> sender.f.email,
            fromName |-> sender.f.name,
            sender |-> sender,
            to |-> toRecipients,
            cc |-> ccRecipients,
            bcc |-> bccRecipients,
            replyTo |-> replyToRecipients,
            preview |-> preview,
            plainTextBody |-> plainTextBody,
            htmlBody |-> htmlContent,
            contentLength |-> Num(Len(plainTextBody.s)),
            folders |-> Or(Get(email, "folders"), Arr(<<>>)),
            folderIds |-> Or(Get(email, "folderIds"), Arr(<<>>)),
            wordCount |-> Num(WordCount(plainTextBody.s)),
            estimatedReadTime |-> Num(ReadTime(WordCount(plainTextBody.s))),
            emailType |-> Get(email, "type"),
            origin |-> Get(email, "origin"),
            role |-> Get(email, "role"),
            attachments |-> Or(Get(email, "attachments"), Arr(<<>>)),
            _debug |-> Obj([
                originalFromAttendee |-> Get(email, "from_attendee"),
                availableFields |-> DOMAIN email.f,
                senderExtractionSuccess |-> Bool(sender.f.email # Unknown)])])

(***************************************************************************)
(* Inputs.                                                                 *)
(***************************************************************************)
RECURSIVE Flatten(_)
Flatten(ss) == IF ss = <<>> THEN <<>> ELSE Head(ss) \o Flatten(Tail(ss))

\* all sequences over S of length at most n
SeqsUpTo(S, n) == UNION {[1..k -> S] : k \in 0..n}

\* text, whitespace and entities, whole and in parts
EntityFrags ==
    { <<"a">>, <<" ">>, <<"\n">>, <<"<", "b", ">">>,
      <<"&", "a", "m", "p", ";">>, <<"&", "l", "t", ";">>,
      <<"l", "t", ";">>, <<"a", "m", "p", ";">> }

\* lines of text, script tags in either case and with an attribute, and
\* style tags, the opening one with the first text of the element
BlockFrags ==
    { <<"x", "\n">>, <<"<", "S", "c", "r", "i", "p", "t", " ", "a", ">">>,
      <<"<", "/", "S", "C", "R", "I", "P", "T", ">">>,
      <<"<", "s", "t", "y", "l", "e", ">", "x">>, StyleClose }

HtmlStrings ==
    {Flatten(fs) : fs \in SeqsUpTo(EntityFrags, MaxFrags)}
    \cup {Flatten(fs) : fs \in SeqsUpTo(BlockFrags, MaxBlockFrags)}

HtmlToTextArgs == {Str(s) : s \in HtmlStrings} \cup {Undefined, Null, Num(7)}

\* quotes, brackets, whitespace and addresses, bare (a name as well) and
\* bracketed
IdFrags ==
    { <<" ">>, <<"\"">>, <<"<">>, <<">">>, <<"\n">>,
      <<"a", "@", "b", ".", "c">>, <<"<", "a", "@", "b", ".", "c", ">">> }

IdStrings == {Flatten(fs) : fs \in SeqsUpTo(IdFrags, MaxIdFrags)}

EmailKeys == {"email", "identifier", "address", "mail"}
NameKeys == {"name", "display_name", "displayName", "personal", "full_name", "fullName"}

\* a value that tells which key it was stored under
KeyValue(k) ==
    CASE k = "email" -> Str(<<"e", "@", "x", ".", "y">>)
      [] k = "identifier" -> Str(<<"i", "@", "x", ".", "y">>)
      [] k = "address" -> Str(<<"a", "@", "x", ".", "y">>)
      [] k = "mail" -> Str(<<"m", "@", "x", ".", "y">>)
      [] k = "name" -> Str(<<"N">>)
      [] k = "display_name" -> Str(<<"D", "_", "N">>)
      [] k = "displayName" -> Str(<<"D", "N">>)
      [] k = "personal" -> Str(<<"P">>)
      [] k = "full_name" -> Str(<<"F", "_", "N">>)
      [] k = "fullName" -> Str(<<"F", "N">>)

\* objects with at most MaxKeys keys, each empty or set, email and name null
\* as well
AttendeeObjects ==
    UNION { { Obj([k \in K |-> IF k \in Z THEN Null ELSE IF k \in E THEN Empty ELSE KeyValue(k)]) :
                E \in SUBSET K, Z \in SUBSET (K \cap {"email", "name"}) }
            : K \in {K \in SUBSET (EmailKeys \cup NameKeys) : Cardinality(K) <= MaxKeys} }

ExtractSenderArgs ==
    {Str(s) : s \in IdStrings} \cup AttendeeObjects
    \cup {Undefined, Null, Num(0), Num(7), Bool(TRUE), Bool(FALSE), Arr(<<>>),
          Arr(<<Str(<<"a", "@", "b", ".", "c">>)>>)}

\* the attendees arrays are made of
Attendees ==
    { Null, Str(<<"J", " ", "<", "a", "@", "b", ".", "c", ">">>),
      Str(<<"a", "@", "b", ".", "c">>), Str(<<"J">>),
      Obj([email |-> KeyValue("email"), name |-> KeyValue("name")]) }

ExtractRecipientsArgs ==
    {Arr(a) : a \in SeqsUpTo(Attendees, MaxAttendees)}
    \cup {Undefined, Null, Str(<<"a", "@", "b", ".", "c">>), Num(7),
          Obj([email |-> KeyValue("email")])}

\* words and whitespace
PlainFrags ==
    { <<"a", "b", "c", "d", "e", " ">>, <<"\n", " ", "f", "\t">>,
      <<" ", "\n", " ", " ", "\t", " ">> }

PlainBodies ==
    {Str(Flatten(fs)) : fs \in SeqsUpTo(PlainFrags, MaxPlainFrags)}
    \cup {Undefined, Null, Num(5)}

HtmlBodies ==
    { Undefined, Empty, Num(3), Str(<<"<", "b", ">", "\n", "<", "/", "b", ">">>),
      Str(<<"<", "b", ">", "h", "i", "<", "/", "b", ">">>),
      Str(<<"<", "b", ">", "h", "i", "<", "/", "b", ">", " ", "t", "h", "e", "r", "e",
            "&", "a", "m", "p", ";">>) }

GeneratePreviewArgs ==
    { [body |-> b, plainBody |-> p, maxLength |-> m] :
        b \in HtmlBodies, p \in PlainBodies,
        m \in {Undefined} \cup {Num(n) : n \in (-1)..MaxLength} }

\* the part of a raw record a set of optional fields makes
Fields(k, V) == {[x \in {} |-> Undefined]} \cup {[x \in {k} |-> v] : v \in V}

\* the attendee fields of a raw record, together
RawAttendees ==
    { [x \in {} |-> Undefined],
      [from_attendee |-> Str(<<"J", " ", "<", "a", "@", "b", ".", "c", ">">>),
       to_attendees |-> Arr(<<Str(<<"a", "@", "b", ".", "c">>), Str(<<"a", "@", "b", ".", "c">>)>>),
       cc_attendees |-> Arr(<<Null>>)],
      [from_attendee |-> Obj([identifier |-> KeyValue("identifier"), name |-> KeyValue("name")]),
       to_attendees |-> Str(<<"a", "@", "b", ".", "c">>),
       bcc_attendees |-> Arr(<<Obj([email |-> KeyValue("email")])>>),
       reply_to_attendees |-> Arr(<<Str(<<"J">>)>>)] }

RawBodies ==
    { Null, Empty, Num(42), Num(0),
      Str(<<"<", "p", ">", "H", "i", " ", "<", "b", ">", "t", "h", "e", "r", "e",
            "<", "/", "b", ">", "<", "/", "p", ">">>),
      Str(<<"a", "\n", "b", "\t", "c", " ", " ", "d">>) }

\* a text of n one-letter words
Words(n) == [i \in 1..(2 * n - 1) |-> IF i % 2 = 1 THEN "a" ELSE " "]

\* texts that take a minute to read, a word more, and a word more than two
\* minutes
LongPlainBodies ==
    {Str(Words(n)) : n \in {WordsPerMinute, WordsPerMinute + 1, 2 * WordsPerMinute + 1}}

RawPlainBodies ==
    { Null, Empty, Num(5), Num(0), Obj([x \in {} |-> Undefined]),
      Str(<<"H", "i", " ", "t", "h", "e", "r", "e">>),
      Str(<<"o", "n", "e", " ", " ", "t", "w", "o", "\n", "t", "h", "r", "e", "e", "\t", "4">>) }
    \cup LongPlainBodies

\* f and g together, f and g functions on disjoint sets of keys
Merge(f, g) == [k \in DOMAIN f \cup DOMAIN g |-> IF k \in DOMAIN f THEN f[k] ELSE g[k]]

RawEmails ==
    { Obj(Merge([id |-> Str(<<"1">>)], Merge(a, Merge(b, Merge(p, Merge(r, s)))))) :
        a \in RawAttendees,
        b \in Fields("body", RawBodies),
        p \in Fields("body_plain", RawPlainBodies),
        r \in Fields("read_date", {Null, Str(<<"2", "0", "2", "4">>), Num(0), Empty}),
        s \in Fields("subject", {Empty, Str(<<"S">>)}) }

(***************************************************************************)
(* The calls.                                                              *)
(***************************************************************************)
Init ==
    /\ pc = "call"
    /\ ret = NoValue
    /\ local = NoValue /\ trace = <<>>
    /\ \/ op = "htmlToText" /\ arg \in {[html |-> h] : h \in HtmlToTextArgs}
       \/ op = "extractSender" /\ arg \in {[attendeeObj |-> a] : a \in ExtractSenderArgs}
       \/ op = "extractRecipients"
            /\ arg \in {[attendeesArray |-> a] : a \in ExtractRecipientsArgs}
       \/ op = "generatePreview" /\ arg \in GeneratePreviewArgs
       \/ op = "processEmail" /\ arg \in {[email |-> e] : e \in RawEmails}

CallHtmlToText ==
    /\ pc = "call" /\ op = "htmlToText"
    /\ ret' = htmlToText(arg.html)
    /\ pc' = "done"
    /\ UNCHANGED <<op, arg, local, trace>>

CallExtractSender ==
    /\ pc = "call" /\ op = "extractSender"
    /\ ret' = extractSender(arg.attendeeObj)
    /\ pc' = "done"
    /\ UNCHANGED <<op, arg, local, trace>>

CallExtractRecipients ==
    /\ pc = "call" /\ op = "extractRecipients"
    /\ ret' = extractRecipients(arg.attendeesArray)
    /\ pc' = "done"
    /\ UNCHANGED <<op, arg, local, trace>>

CallGeneratePreview ==
    /\ pc = "call" /\ op = "generatePreview"
    /\ ret' = generatePreview(arg.body, arg.plainBody, arg.maxLength)
    /\ pc' = "done"
    /\ UNCHANGED <<op, arg, local, trace>>

\* a processEmail that takes the body out of the raw record it has read
CallProcessEmail_Consuming ==
    /\ pc = "call" /\ op = "processEmail"
    /\ ret' = processEmail(arg.email)
    /\ pc' = "done"
    /\ arg' = [email |-> Obj([k \in DOMAIN arg.email.f \ {"body"} |-> arg.email.f[k]])]
    /\ UNCHANGED <<op, local, trace>>

\* processEmail reads the fields of email and assigns to none of them, nor
\* do the functions it calls: the raw record is left as it was
CallProcessEmail ==
    /\ pc = "call" /\ op = "processEmail"
    /\ ret' = processEmail(arg.email)
    /\ pc' = "done"
    /\ UNCHANGED <<op, arg, local, trace>>

Next ==
    \/ CallHtmlToText
    \/ CallExtractSender
    \/ CallExtractRecipients
    \/ CallGeneratePreview
    \/ CallProcessEmail

Spec == Init /\ [][Next]_vars

(***************************************************************************)
(* EmailUtils.categorizeEmail of email-utils.js                            *)
(***************************************************************************)
\* number of fragments a subject is concatenated from
MaxSubjectFrags == 3

\* the keywords of the rules
KW_SECURITY == <<"s", "e", "c", "u", "r", "i", "t", "y">>
KW_VERIFICATION == <<"v", "e", "r", "i", "f", "i", "c", "a", "t", "i", "o", "n">>
KW_VERIFY == <<"v", "e", "r", "i", "f", "y">>
KW_CODE == <<"c", "o", "d", "e">>
KW_INSTAGRAM == <<"i", "n", "s", "t", "a", "g", "r", "a", "m">>
KW_FACEBOOK == <<"f", "a", "c", "e", "b", "o", "o", "k">>
KW_LINKEDIN == <<"l", "i", "n", "k", "e", "d", "i", "n">>
KW_TWITTER == <<"t", "w", "i", "t", "t", "e", "r">>
KW_KALVIUM == <<"k", "a", "l", "v", "i", "u", "m">>
KW_EMPLOYEE == <<"e", "m", "p", "l", "o", "y", "e", "e">>
KW_WORK == <<"w", "o", "r", "k">>
KW_PROJECT == <<"p", "r", "o", "j", "e", "c", "t">>
KW_UPDATE == <<"u", "p", "d", "a", "t", "e">>
KW_LAUNCH == <<"l", "a", "u", "n", "c", "h">>
KW_NEW == <<"n", "e", "w">>
KW_DEAL == <<"d", "e", "a", "l">>

\* the strings of undefined and of a plain object
UNDEFINED_TEXT == <<"u", "n", "d", "e", "f", "i", "n", "e", "d">>
OBJECT_TEXT == <<"[", "o", "b", "j", "e", "c", "t", " ", "O", "b", "j", "e", "c", "t", "]">>

\* the length of the digit run the security rule looks for
SixDigits == 6

\* s.toLowerCase()
ToLowerCase(s) == [i \in 1..Len(s) |-> Lower(s[i])]

\* s.includes(pat)
Includes(s, pat) == \E i \in 1..(Len(s) - Len(pat) + 1) : MatchAt(s, i, pat)

\* the characters \d matches
IsDigit(c) == c \in {"0", "1", "2", "3", "4", "5", "6", "7", "8", "9"}

\* the decimal digits of a natural number
RECURSIVE Digits(_)
Digits(n) ==
    LET d == <<"0", "1", "2", "3", "4", "5", "6", "7", "8", "9">>[(n % 10) + 1]
    IN IF n < 10 THEN <<d>> ELSE Digits(n \div 10) \o <<d>>

\* the string of a value of the model: what a template literal and
\* RegExp.prototype.test make of a value (arrays join the strings of their
\* elements with commas, with nothing for undefined and null)
RECURSIVE StringOf(_)
StringOf(v) ==
    CASE v.t = "string" -> v.s
      [] v.t = "undefined" -> UNDEFINED_TEXT
      [] v.t = "null" -> <<"n", "u", "l", "l">>
      [] v.t = "number" -> IF v.n < 0 THEN <<"-">> \o Digits(-v.n) ELSE Digits(v.n)
      [] v.t = "boolean" -> IF v.b THEN <<"t", "r", "u", "e">> ELSE <<"f", "a", "l", "s", "e">>
      [] v.t = "array" ->
            Flatten([i \in 1..Len(v.a) |->
                (IF i > 1 THEN <<",">> ELSE <<>>)
                \o (IF v.a[i].t \in {"undefined", "null"} THEN <<>> ELSE StringOf(v.a[i]))])
      [] OTHER -> OBJECT_TEXT

\* /\d{6}/.test(v): six digits in a row somewhere in the string of v
HasSixDigits(v) ==
    LET s == StringOf(v)
    IN \E i \in 1..(Len(s) - SixDigits + 1) : \A k \in i..(i + SixDigits - 1) : IsDigit(s[k])

SecurityWords == {KW_SECURITY, KW_VERIFICATION, KW_VERIFY, KW_CODE}
SocialWords == {KW_INSTAGRAM, KW_FACEBOOK, KW_LINKEDIN, KW_TWITTER}
OrganizationWords == {KW_KALVIUM}
WorkWords == {KW_EMPLOYEE, KW_WORK, KW_PROJECT}
MarketingWords == {KW_UPDATE, KW_LAUNCH, KW_NEW, KW_DEAL}

Security == Str(KW_SECURITY)
Social == Str(<<"s", "o", "c", "i", "a", "l">>)
Work == Str(KW_WORK)
Marketing == Str(<<"m", "a", "r", "k", "e", "t", "i", "n", "g">>)
General == Str(<<"g", "e", "n", "e", "r", "a", "l">>)

\* s.includes(w) for one of the words
IncludesAny(s, words) == \E w \in words : Includes(s, w)

\* categorizeEmail with the marketing rule tried before the work rule
categorizeEmail_MarketingFirst(subject, sender, body) ==
    IF \E v \in {subject, sender, body} : Truthy(v) /\ TypeOf(v) # "string"
    THEN Thrown("TypeError")
    ELSE LET subjectLower == ToLowerCase(Or(subject, Empty).s)
             senderLower == ToLowerCase(Or(sender, Empty).s)
         IN IF IncludesAny(subjectLower, SecurityWords) \/ HasSixDigits(subject)
            THEN Security
            ELSE IF IncludesAny(senderLower, SocialWords) THEN Social
            ELSE IF IncludesAny(subjectLower, MarketingWords) THEN Marketing
            ELSE IF IncludesAny(senderLower, OrganizationWords)
                    \/ IncludesAny(subjectLower, WorkWords)
                 THEN Work
            ELSE General

\* categorizeEmail with the security words looked for in the body as well
categorizeEmail_BodySearched(subject, sender, body) ==
    IF \E v \in {subject, sender, body} : Truthy(v) /\ TypeOf(v) # "string"
    THEN Thrown("TypeError")
    ELSE LET subjectLower == ToLowerCase(Or(subject, Empty).s)
             senderLower == ToLowerCase(Or(sender, Empty).s)
             bodyLower == ToLowerCase(Or(body, Empty).s)
         IN IF IncludesAny(subjectLower, SecurityWords) \/ HasSixDigits(subject)
               \/ IncludesAny(bodyLower, SecurityWords)
            THEN Security
            ELSE IF IncludesAny(senderLower, SocialWords) THEN Social
            ELSE IF IncludesAny(senderLower, OrganizationWords)
                    \/ IncludesAny(subjectLower, WorkWords)
                 THEN Work
            ELSE IF IncludesAny(subjectLower, MarketingWords) THEN Marketing
            ELSE General

\* (v || '').toLowerCase() is not a function when v is truthy and no string
categorizeEmail(subject, sender, body) ==
    IF \E v \in {subject, sender, body} : Truthy(v) /\ TypeOf(v) # "string"
    THEN Thrown("TypeError")
    ELSE LET subjectLower == ToLowerCase(Or(subject, Empty).s)
             senderLower == ToLowerCase(Or(sender, Empty).s)
         IN IF IncludesAny(subjectLower, SecurityWords) \/ HasSixDigits(subject)
            THEN Security
            ELSE IF IncludesAny(senderLower, SocialWords) THEN Social
            ELSE IF IncludesAny(senderLower, OrganizationWords)
                    \/ IncludesAny(subjectLower, WorkWords)
                 THEN Work
            ELSE IF IncludesAny(subjectLower, MarketingWords) THEN Marketing
            ELSE General

(***************************************************************************)
(* EmailUtils.extractKeyInfo of email-utils.js                             *)
(***************************************************************************)
\* the lengths of a digit run that is a code
MinCodeLength == 4
MaxCodeLength == 8
\* the number of URL matches that are looked at
MaxLinks == 3

\* the action words
AW_VERIFY == <<"v", "e", "r", "i", "f", "y">>
AW_CONFIRM == <<"c", "o", "n", "f", "i", "r", "m">>
AW_ACTIVATE == <<"a", "c", "t", "i", "v", "a", "t", "e">>
AW_LOGIN == <<"l", "o", "g", "i", "n">>
AW_RESET == <<"r", "e", "s", "e", "t">>
AW_UPDATE == <<"u", "p", "d", "a", "t", "e">>

HttpScheme == <<"h", "t", "t", "p", ":", "/", "/">>
HttpsScheme == <<"h", "t", "t", "p", "s", ":", "/", "/">>

Letters ==
    {"a", "b", "c", "d", "e", "f", "g", "h", "i", "j", "k", "l", "m",
     "n", "o", "p", "q", "r", "s", "t", "u", "v", "w", "x", "y", "z"}

\* the characters \w matches; \b is between one of them and none of them
IsWordChar(c) == IsDigit(c) \/ c = "_" \/ Lower(c) \in Letters

\* the last index of the run of digits that starts at i
RunEnd(s, i) ==
    LET N == {k \in i..Len(s) : ~IsDigit(s[k])}
    IN IF N = {} THEN Len(s) ELSE Min(N) - 1

\* /\b\d{4,8}\b/ matches at i: a digit with no word character before it, and
\* the whole run of digits from it is 4 to 8 long with no word character
\* after it (inside a run, \b holds nowhere)
IsCodeStart(s, i) ==
    /\ IsDigit(s[i])
    /\ i = 1 \/ ~IsWordChar(s[i - 1])
    /\ LET e == RunEnd(s, i)
       IN /\ e - i + 1 >= MinCodeLength /\ e - i + 1 <= MaxCodeLength
          /\ e = Len(s) \/ ~IsWordChar(s[e + 1])

\* a sequence without its empty elements
NonEmpty(a) == SelectSeq(a, LAMBDA m : m # <<>>)

\* s.match(/\b\d{4,8}\b/g), the empty sequence for null
CodeMatches(s) ==
    NonEmpty([i \in 1..Len(s) |-> IF IsCodeStart(s, i) THEN Sub(s, i, RunEnd(s, i)) ELSE <<>>])

\* the characters [^\s<>"] matches
IsUrlChar(c) == ~IsSpace(c) /\ c \notin {"<", ">", "\""}

\* the index after the scheme that starts at i, 0 when none does
SchemeEnd(s, i) ==
    IF MatchAt(s, i, HttpScheme) THEN i + Len(HttpScheme)
    ELSE IF MatchAt(s, i, HttpsScheme) THEN i + Len(HttpsScheme)
    ELSE 0

\* /https?:\/\/[^\s<>"]+/ matches at i
IsUrlCandidate(s, i) ==
    /\ SchemeEnd(s, i) # 0 /\ SchemeEnd(s, i) <= Len(s)
    /\ IsUrlChar(s[SchemeEnd(s, i)])

\* the last index of the match at i: the characters go on to the first one
\* [^\s<>"] does not match
UrlEnd(s, i) ==
    LET N == {k \in SchemeEnd(s, i)..Len(s) : ~IsUrlChar(s[k])}
    IN IF N = {} THEN Len(s) ELSE Min(N) - 1

\* the g flag: a match starts at i when no earlier match reaches i
IsUrlStart(s, i) ==
    /\ IsUrlCandidate(s, i)
    /\ \A j \in 1..(i - 1) : IsUrlCandidate(s, j) => UrlEnd(s, j) < i

\* s.match(/https?:\/\/[^\s<>"]+/g), the empty sequence for null
UrlMatches(s) ==
    NonEmpty([i \in 1..Len(s) |-> IF IsUrlStart(s, i) THEN Sub(s, i, UrlEnd(s, i)) ELSE <<>>])

\* a.slice(0, n)
Slice0(a, n) == Sub(a, 1, IF n > Len(a) THEN Len(a) ELSE n)

\* a Set that keeps what it is given, duplicates too
SetOf_KeepAll(a) == a

\* [...new Set(a)]: the first of each of the equal elements, in order
SetOf(a) ==
    NonEmpty([i \in 1..Len(a) |-> IF \E k \in 1..(i - 1) : a[k] = a[i] THEN <<>> ELSE a[i]])

actionWords == <<AW_VERIFY, AW_CONFIRM, AW_ACTIVATE, AW_LOGIN, AW_RESET, AW_UPDATE>>

\* the loop over actionWords left at the first word found
Actions_FirstOnly(fullText) ==
    Slice0(SelectSeq(actionWords, LAMBDA action : Includes(fullText, action)), 1)

\* the loop over actionWords: each word fullText includes, in their order
Actions(fullText) == SelectSeq(actionWords, LAMBDA action : Includes(fullText, action))

\* an array of strings
StrArr(a) == Arr([i \in 1..Len(a) |-> Str(a[i])])

\* body.match is not a function (or body is undefined or null) unless body
\* is a string
extractKeyInfo(subject, body) ==
    LET fullText == ToLowerCase(StringOf(subject) \o <<" ">> \o StringOf(body))
    IN IF TypeOf(body) # "string" THEN Thrown("TypeError")
       ELSE Obj([codes |-> StrArr(SetOf(CodeMatches(fullText))),
                 links |-> StrArr(SetOf(Slice0(UrlMatches(body.s), MaxLinks))),
                 dates |-> Arr(<<>>),
                 actions |-> StrArr(Actions(fullText))])

(***************************************************************************)
(* The calls of categorizeEmail and extractKeyInfo.                        *)
(***************************************************************************)
\* number of fragments a body with digits is concatenated from
MaxCodeFrags == 3
\* number of fragments a body with links is concatenated from
MaxLinkFrags == 4
\* number of fragments a body with action words is concatenated from
MaxActionFrags == 3

\* a security word, a marketing word, a work word and digits
SubjectFrags == { <<"V", "e", "r", "i", "f", "y">>, <<"D", "E", "A", "L">>, <<"w", "o", "r", "k">>, <<"1", "2", "3">>, <<"4", "5", "6", " ">> }

\* every word of a subject rule, in some case and place, and no string
Subjects ==
    {Str(Flatten(fs)) : fs \in SeqsUpTo(SubjectFrags, MaxSubjectFrags)}
    \cup { Str(<<>>),
           Str(<<"S", "e", "c", "u", "r", "i", "t", "y", " ", "a", "l", "e", "r", "t">>),
           Str(<<"V", "E", "R", "I", "F", "I", "C", "A", "T", "I", "O", "N">>),
           Str(<<"Y", "o", "u", "r", " ", "C", "o", "d", "e">>),
           Str(<<"E", "m", "p", "l", "o", "y", "e", "e">>),
           Str(<<"m", "y", " ", "P", "r", "o", "j", "e", "c", "t">>),
           Str(<<"U", "p", "d", "a", "t", "e">>),
           Str(<<"L", "A", "U", "N", "C", "H">>),
           Str(<<"N", "e", "w">>),
           Str(<<"1", "2", "3", "4", "5", "6", "7">>) }
    \cup {Undefined, Null, Num(0), Num(123456)}

\* every word of a sender rule, in some case and place
Senders ==
    { Undefined, Empty, Num(7),
      Str(<<"a", "@", "b", ".", "c">>),
      Str(<<"x", "@", "I", "n", "s", "t", "a", "g", "r", "a", "m", ".", "c", "o", "m">>),
      Str(<<"F", "A", "C", "E", "B", "O", "O", "K">>),
      Str(<<"l", "i", "n", "k", "e", "d", "i", "n">>),
      Str(<<"T", "w", "i", "t", "t", "e", "r">>),
      Str(<<"h", "r", "@", "K", "a", "l", "v", "i", "u", "m", ".", "c", "o", "m", "m", "u", "n", "i", "t", "y">>) }

CategorizeBodies == {Undefined, Num(3), Str(<<"v", "e", "r", "i", "f", "y", " ", "d", "e", "a", "l", " ", "1", "2", "3", "4", "5", "6">>)}

CategorizeEmailArgs ==
    {[subject |-> s, sender |-> f, body |-> b] :
        s \in Subjects, f \in Senders, b \in CategorizeBodies}

\* runs of 2, 4 and 5 digits, a space, a letter and an underscore
CodeFrags == { <<"1", "2", "3", "4">>, <<"5", "6", "7", "8", "9">>, <<"1", "2">>, <<" ">>, <<"a">>, <<"_">> }

\* URLs that end at a space, a `<` and a quote, and a scheme alone
LinkFrags == { <<"h", "t", "t", "p", ":", "/", "/", "a", " ">>, <<"h", "t", "t", "p", "s", ":", "/", "/", "b", "<">>, <<"h", "t", "t", "p", ":", "/", "/", "c", "\"">>, <<"h", "t", "t", "p", ":", "/", "/">> }

\* action words in either case, whole and in parts
ActionFrags == { <<"V", "e", "r", "i", "f", "y">>, <<"L", "O", "G">>, <<"i", "n">>, <<"R", "e", "s", "e", "t", " ">>, <<"u", "p">>, <<"d", "a", "t", "e">> }

KeyInfoBodies ==
    {Str(Flatten(fs)) : fs \in SeqsUpTo(CodeFrags, MaxCodeFrags)}
    \cup {Str(Flatten(fs)) : fs \in SeqsUpTo(LinkFrags, MaxLinkFrags)}
    \cup {Str(Flatten(fs)) : fs \in SeqsUpTo(ActionFrags, MaxActionFrags)}
    \cup {Undefined, Null, Num(1234)}

KeyInfoSubjects ==
    { Undefined, Null, Empty, Num(123456),
      Str(<<"C", "o", "d", "e", ":", " ", "4", "3", "2", "1">>),
      Str(<<"l", "o", "g">>),
      Str(<<"h", "t", "t", "p", ":", "/", "/", "s", ".", "c", "o", " ", "U", "p", "d", "a", "t", "e", " ", "1", "2", "3", "4">>) }

ExtractKeyInfoArgs ==
    {[subject |-> s, body |-> b] : s \in KeyInfoSubjects, b \in KeyInfoBodies}

InitUtils ==
    /\ pc = "call"
    /\ ret = NoValue
    /\ local = NoValue /\ trace = <<>>
    /\ \/ op = "categorizeEmail" /\ arg \in CategorizeEmailArgs
       \/ op = "extractKeyInfo" /\ arg \in ExtractKeyInfoArgs

CallCategorizeEmail ==
    /\ pc = "call" /\ op = "categorizeEmail"
    /\ ret' = categorizeEmail(arg.subject, arg.sender, arg.body)
    /\ pc' = "done"
    /\ UNCHANGED <<op, arg, local, trace>>

CallExtractKeyInfo ==
    /\ pc = "call" /\ op = "extractKeyInfo"
    /\ ret' = extractKeyInfo(arg.subject, arg.body)
    /\ pc' = "done"
    /\ UNCHANGED <<op, arg, local, trace>>

NextUtils ==
    \/ CallCategorizeEmail
    \/ CallExtractKeyInfo

SpecUtils == InitUtils /\ [][NextUtils]_vars

(***************************************************************************)
(* The exported EmailUtils of email-utils.js: htmlToText, extractSender    *)
(* and generatePreview.                                                    *)
(***************************************************************************)
\* the entity passes of the exported class, in the order the code applies
\* them
Exported_DecodeEntities(s) ==
    LET e1 == ReplaceAll(s, <<"&", "n", "b", "s", "p", ";">>, <<" ">>)
        e2 == ReplaceAll(e1, <<"&", "a", "m", "p", ";">>, <<"&">>)
        e3 == ReplaceAll(e2, <<"&", "l", "t", ";">>, <<"<">>)
        e4 == ReplaceAll(e3, <<"&", "g", "t", ";">>, <<">">>)
        e5 == ReplaceAll(e4, <<"&", "q", "u", "o", "t", ";">>, <<"\"">>)
        e6 == ReplaceAll(e5, <<"&", "#", "3", "9", ";">>, <<"'">>)
    IN ReplaceAll(e6, <<"&", "a", "p", "o", "s", ";">>, <<"'">>)

\* htmlToText of the exported class
Exported_htmlToText(html) ==
    IF ~Truthy(html) \/ TypeOf(html) # "string" THEN Str(<<>>)
    ELSE Str(Trim(CollapseSpaces(Exported_DecodeEntities(StripMarkup(html.s)))))

\* the object branch of the exported class: two shorter chains of ||
Exported_ObjectIdentity(fromField) ==
    Identity(
        Or(Get(fromField, "email"), Or(Get(fromField, "identifier"),
            Or(Get(fromField, "address"), Unknown))),
        Or(Get(fromField, "name"), Or(Get(fromField, "display_name"),
            Or(Get(fromField, "personal"), Empty))))

\* extractSender of the exported class: the string branch first, and a
\* string without brackets taken as the address
Exported_extractSender(fromField) ==
    IF ~Truthy(fromField) THEN Identity(Unknown, Empty)
    ELSE IF TypeOf(fromField) = "string"
         THEN LET match == BracketMatch(fromField.s)
              IN IF match # <<>>
                 THEN BracketIdentity(fromField.s, match)
                 ELSE Identity(Str(Trim(fromField.s)), Empty)
    ELSE IF TypeOf(fromField) = "object" THEN Exported_ObjectIdentity(fromField)
    ELSE Identity(Unknown, Empty)

\* generatePreview of the exported class: the plain body is the first
\* parameter and is taken whenever it is a non-empty string
Exported_generatePreview(body, htmlBody, maxLength) ==
    LET max == IF maxLength = Undefined THEN DefaultMaxLength ELSE maxLength.n
        content == IF Truthy(body) /\ TypeOf(body) = "string" THEN body.s
                   ELSE IF Truthy(htmlBody) /\ TypeOf(htmlBody) = "string"
                        THEN Exported_htmlToText(htmlBody).s
                   ELSE <<>>
        cleaned == PreviewClean(content)
    IN IF content = <<>> THEN Str(NoContentAvailable)
       ELSE IF Len(cleaned) > max THEN Str(Substring0(cleaned, max) \o Ellipsis)
       ELSE Str(cleaned)

\* markup with the entities only one of the classes decodes
HexEntityStrings ==
    { <<"i", "t", "&", "#", "x", "2", "7", ";", "s">>,
      <<"a", "&", "#", "x", "2", "F", ";", "b", "&", "#", "x", "3", "D", ";">>,
      <<"&", "#", "x", "6", "0", ";">>,
      <<"&", "a", "m", "p", ";", "#", "x", "2", "7", ";">> }

\* the calls of the exported class, on the inputs of the class of the service
InitExported ==
    /\ pc = "call"
    /\ ret = NoValue
    /\ local = NoValue /\ trace = <<>>
    /\ \/ op = "htmlToText"
            /\ arg \in {[html |-> h] : h \in HtmlToTextArgs \cup {Str(s) : s \in HexEntityStrings}}
       \/ op = "extractSender" /\ arg \in {[attendeeObj |-> a] : a \in ExtractSenderArgs}
       \/ op = "generatePreview" /\ arg \in GeneratePreviewArgs

CallExportedHtmlToText ==
    /\ pc = "call" /\ op = "htmlToText"
    /\ ret' = Exported_htmlToText(arg.html)
    /\ pc' = "done"
    /\ UNCHANGED <<op, arg, local, trace>>

CallExportedExtractSender ==
    /\ pc = "call" /\ op = "extractSender"
    /\ ret' = Exported_extractSender(arg.attendeeObj)
    /\ pc' = "done"
    /\ UNCHANGED <<op, arg, local, trace>>

\* the plain body is the first argument of the exported generatePreview
CallExportedGeneratePreview ==
    /\ pc = "call" /\ op = "generatePreview"
    /\ ret' = Exported_generatePreview(arg.plainBody, arg.body, arg.maxLength)
    /\ pc' = "done"
    /\ UNCHANGED <<op, arg, local, trace>>

NextExported ==
    \/ CallExportedHtmlToText
    \/ CallExportedExtractSender
    \/ CallExportedGeneratePreview

SpecExported == InitExported /\ [][NextExported]_vars

(***************************************************************************)
(* UnipileEmailService.getAllEmails and getEmailById: two requests of the  *)
(* service in progress at once.  Each awaits the answer of the provider    *)
(* and then normalizes what it got, without a suspension point in between. *)
(***************************************************************************)
\* number of raw records the provider lists
MaxListed == 2

\* the defaults of options.limit and options.offset
DefaultLimit == 50
DefaultOffset == 0

\* Array.isArray(v)
IsArray(v) == v.t = "array"

\* the emails getAllEmails finds in response.data: under items, the data
\* itself, under data, or the array under another key (the inputs have at
\* most one)
EmailsOfResponse(data) ==
    IF Truthy(data) /\ Truthy(Get(data, "items")) /\ IsArray(Get(data, "items"))
    THEN Get(data, "items").a
    ELSE IF IsArray(data) THEN data.a
    ELSE IF Truthy(data) /\ Truthy(Get(data, "data")) /\ IsArray(Get(data, "data"))
         THEN Get(data, "data").a
    ELSE LET K == IF data.t = "object" THEN {k \in DOMAIN data.f : IsArray(data.f[k])} ELSE {}
         IN IF K = {} THEN <<>> ELSE data.f[CHOOSE k \in K : TRUE].a

\* total and has_more are read where the emails are under items or data
HasPagingFields(data) ==
    \/ Truthy(data) /\ Truthy(Get(data, "items")) /\ IsArray(Get(data, "items"))
    \/ ~IsArray(data) /\ Truthy(data) /\ Truthy(Get(data, "data")) /\ IsArray(Get(data, "data"))

\* what getAllEmails returns for response.data, or the Error it throws when
\* processEmail throws
getAllEmails(data) ==
    LET emails == EmailsOfResponse(data)
        processedEmails == [i \in 1..Len(emails) |-> processEmail(emails[i])]
    IN IF \E i \in 1..Len(emails) : processedEmails[i].t = "thrown" THEN Thrown("Error")
       ELSE Obj([success |-> Bool(TRUE),
                 emails |-> Arr(processedEmails),
                 total |-> IF HasPagingFields(data)
                           THEN Or(Get(data, "total"), Num(Len(emails)))
                           ELSE Num(Len(emails)),
                 pagination |-> Obj([limit |-> Num(DefaultLimit),
                                     offset |-> Num(DefaultOffset),
                                     hasMore |-> IF HasPagingFields(data) /\ emails # <<>>
                                                 THEN Or(Get(data, "has_more"), Bool(FALSE))
                                                 ELSE Bool(FALSE)])])

\* what getEmailById returns for response.data
getEmailById(emailData) ==
    LET processedEmail == processEmail(emailData)
    IN IF processedEmail.t = "thrown" THEN Thrown("Error")
       ELSE Obj([success |-> Bool(TRUE), email |-> processedEmail])

\* raw records of the provider: a sender in brackets and markup, nothing
\* but an id, and a plain body that is a number
ServiceRaws ==
    { Obj([id |-> Str(<<"1">>),
           from_attendee |-> Str(<<"J", " ", "<", "a", "@", "b", ".", "c", ">">>),
           body |-> Str(<<"<", "b", ">", "h", "i", "<", "/", "b", ">">>)]),
      Obj([id |-> Str(<<"2">>)]),
      Obj([id |-> Str(<<"3">>), body_plain |-> Num(5)]) }

\* the shapes of response.data of the list request
ListResponses ==
    UNION { { Obj([items |-> Arr(a), total |-> Num(7), has_more |-> Bool(TRUE)]),
              Arr(a), Obj([data |-> Arr(a)]), Obj([results |-> Arr(a)]) }
            : a \in SeqsUpTo(ServiceRaws, MaxListed) }
    \cup {Obj([message |-> Str(<<"n", "o">>)]), Null}

Requests == {"list", "byId"}

\* a list request and a fetch by id, neither sent yet; arg is what the
\* provider will answer to each
InitService ==
    /\ op = "requests"
    /\ pc = [r \in Requests |-> "start"]
    /\ ret = [r \in Requests |-> NoValue]
    /\ \E l \in ListResponses, e \in ServiceRaws : arg = [list |-> l, byId |-> e]
    /\ local = NoValue /\ trace = <<>>

\* up to the await of axios.get
GetAllEmailsRequest ==
    /\ pc.list = "start"
    /\ pc' = [pc EXCEPT !.list = "awaiting"]
    /\ trace' = Append(trace, [e |-> "get", r |-> "list"])
    /\ UNCHANGED <<op, arg, ret, local>>

\* from the answer of the provider to the return, or the throw
GetAllEmailsResponse ==
    /\ pc.list = "awaiting"
    /\ \E ok \in BOOLEAN :
           ret' = [ret EXCEPT !.list = IF ok THEN getAllEmails(arg.list) ELSE Thrown("Error")]
    /\ pc' = [pc EXCEPT !.list = "done"]
    /\ UNCHANGED <<op, arg, local, trace>>

GetEmailByIdRequest ==
    /\ pc.byId = "start"
    /\ pc' = [pc EXCEPT !.byId = "awaiting"]
    /\ trace' = Append(trace, [e |-> "get", r |-> "byId"])
    /\ UNCHANGED <<op, arg, ret, local>>

\* getEmailById answering with the first record the list request returned,
\* when that request has returned one
GetEmailByIdResponse_SharedResult ==
    /\ pc.byId = "awaiting"
    /\ \E ok \in BOOLEAN :
           ret' = [ret EXCEPT !.byId =
                      IF ~ok THEN Thrown("Error")
                      ELSE IF ret.list.t = "object" /\ ret.list.f.emails.a # <<>>
                           THEN Obj([success |-> Bool(TRUE), email |-> ret.list.f.emails.a[1]])
                           ELSE getEmailById(arg.byId)]
    /\ pc' = [pc EXCEPT !.byId = "done"]
    /\ UNCHANGED <<op, arg, local, trace>>

GetEmailByIdResponse ==
    /\ pc.byId = "awaiting"
    /\ \E ok \in BOOLEAN :
           ret' = [ret EXCEPT !.byId = IF ok THEN getEmailById(arg.byId) ELSE Thrown("Error")]
    /\ pc' = [pc EXCEPT !.byId = "done"]
    /\ UNCHANGED <<op, arg, local, trace>>

NextService ==
    \/ GetAllEmailsRequest
    \/ GetAllEmailsResponse
    \/ GetEmailByIdRequest
    \/ GetEmailByIdResponse

SpecService == InitService /\ [][NextService]_vars

(***************************************************************************)
(* UnipileEmailService.sendEmail, up to the request to the provider.       *)
(***************************************************************************)
\* one element of an array of recipients; null has no property email
FormatRecipient(recipient) ==
    IF TypeOf(recipient) = "string"
    THEN Obj([identifier |-> recipient, display_name |-> Empty])
    ELSE IF TypeOf(recipient) = "object"
         THEN IF recipient = Null THEN Thrown("TypeError")
              ELSE Obj([identifier |-> Or(Get(recipient, "email"), Get(recipient, "identifier")),
                        display_name |-> Or(Get(recipient, "name"),
                                            Or(Get(recipient, "display_name"), Empty))])
    ELSE Obj([identifier |-> recipient, display_name |-> Empty])

\* formatRecipients of sendEmail: a string, an array, or anything else
formatRecipients(recipients) ==
    IF TypeOf(recipients) = "string"
    THEN Arr(<<Obj([identifier |-> recipients, display_name |-> Empty])>>)
    ELSE IF IsArray(recipients)
         THEN LET formatted == [i \in 1..Len(recipients.a) |-> FormatRecipient(recipients.a[i])]
              IN IF \E i \in 1..Len(formatted) : formatted[i].t = "thrown"
                 THEN Thrown("TypeError")
                 ELSE Arr(formatted)
    ELSE Arr(<<Obj([identifier |-> recipients, display_name |-> Empty])>>)

\* a field of emailData that is there when the option is truthy
OptionalRecipients(options, k) ==
    IF Truthy(Get(options, k)) THEN formatRecipients(Get(options, k)) ELSE Undefined

\* the request sendEmail posts to the provider, or the Error it throws
\* before posting; the account is the one of the route
emailData(to, subject, body, options) ==
    LET recipients == formatRecipients(to)
        cc == OptionalRecipients(options, "cc")
        bcc == OptionalRecipients(options, "bcc")
        reply_to == OptionalRecipients(options, "replyTo")
    IN IF \E v \in {recipients, cc, bcc, reply_to} : v.t = "thrown" THEN Thrown("Error")
       ELSE [t |-> "request", e |-> "send", to |-> recipients, subject |-> subject,
             body |-> body, cc |-> cc, bcc |-> bcc, reply_to |-> reply_to]

\* the moment of new Date().toISOString()
Now == Str(<<"n", "o", "w">>)

\* what sendEmail returns for response.data
SendResult(data) ==
    [messageId |-> Or(Get(data, "id"), Or(Get(data, "message_id"), Str(<<"s", "e", "n", "t">>))),
     sentAt |-> Or(Get(data, "sent_at"), Or(Get(data, "created_at"), Now))]

\* what the provider answers to a send: a failure, or response.data
SendAnswers == {Thrown("Error"), Obj([id |-> Str(<<"m", "1">>)])}

\* the answer as trace records it
Answer(ok) == [e |-> "answer", ok |-> ok]

(***************************************************************************)
(* The handlers of POST /api/emails/:accountId/send, send/html,            *)
(* send/professional, send/bulk and reply/:emailId.                        *)
(***************************************************************************)
\* number of recipients of a bulk send
MaxRecipients == 3

\* the default of delayBetweenEmails
DefaultDelay == 1000

\* the status of res.json, res.status(400) and res.status(500)
Ok == 200
BadRequest == 400
ServerError == 500

\* a response of the handler
Response(status, data) == [t |-> "response", status |-> status, data |-> data]

\* a destructuring default: it applies to undefined only
Default(v, d) == IF v = Undefined THEN d ELSE v

\* the handler responds and ends
Respond(r) ==
    /\ ret' = r
    /\ pc' = "done"

\* sendEmail posts the request m and awaits the answer, or throws before
\* posting and the handler responds with status 500
PostOrFail(m) ==
    IF m.t = "thrown"
    THEN Respond(Response(ServerError, m)) /\ UNCHANGED trace
    ELSE trace' = Append(trace, m) /\ pc' = "awaitSend" /\ UNCHANGED ret

\* POST send: the checks, then sendEmail up to its request
SendStart ==
    /\ pc = "start" /\ op = "send"
    /\ LET to == Get(arg, "to")
           subject == Get(arg, "subject")
           body == Get(arg, "body")
           isHtml == Default(Get(arg, "isHtml"), Bool(TRUE))
       IN IF ~Truthy(to) THEN Respond(Response(BadRequest, Undefined)) /\ UNCHANGED trace
          ELSE IF ~Truthy(subject) \/ ~Truthy(body)
               THEN Respond(Response(BadRequest, Undefined)) /\ UNCHANGED trace
          ELSE PostOrFail(emailData(to, subject, body,
                   Obj([cc |-> Get(arg, "cc"), bcc |-> Get(arg, "bcc"), isHtml |-> isHtml])))
    /\ UNCHANGED <<op, arg, local>>

\* POST send: from the answer of the provider to the response
SendAnswer ==
    /\ pc = "awaitSend" /\ op = "send"
    /\ \E a \in SendAnswers :
          /\ trace' = Append(trace, Answer(a.t # "thrown"))
          /\ IF a.t = "thrown" THEN Respond(Response(ServerError, a))
             ELSE Respond(Response(Ok,
                      [messageId |-> SendResult(a).messageId, to |-> Get(arg, "to"),
                       cc |-> Or(Get(arg, "cc"), Null), bcc |-> Or(Get(arg, "bcc"), Null),
                       subject |-> Get(arg, "subject"),
                       isHtml |-> Default(Get(arg, "isHtml"), Bool(TRUE)),
                       sentAt |-> SendResult(a).sentAt]))
    /\ UNCHANGED <<op, arg, local>>

\* the names of the templates of applyEmailTemplate
TemplateNames ==
    { Str(<<"p", "r", "o", "f", "e", "s", "s", "i", "o", "n", "a", "l">>),
      Str(<<"s", "i", "m", "p", "l", "e">>),
      Str(<<"n", "e", "w", "s", "l", "e", "t", "t", "e", "r">>) }

\* a page made from a template: its name and what was put into it
Page(template, fields) == [t |-> "page", template |-> template, fields |-> fields]

\* templates[template] || content
applyEmailTemplate(content, template, subject) ==
    IF template \in TemplateNames
    THEN Page(template, [content |-> content, subject |-> subject])
    ELSE content

\* POST send/html: the check and the template, then sendEmail up to its
\* request
SendHtmlStart_NoSubjectCheck ==
    /\ pc = "start" /\ op = "sendHtml"
    /\ LET to == Get(arg, "to")
           subject == Get(arg, "subject")
           htmlContent == Get(arg, "htmlContent")
           template == Get(arg, "template")
           finalHtmlContent == IF Truthy(template)
                               THEN applyEmailTemplate(htmlContent, template, subject)
                               ELSE htmlContent
       IN IF ~Truthy(to) \/ ~Truthy(htmlContent)
          THEN Respond(Response(BadRequest, Undefined)) /\ UNCHANGED trace
          ELSE PostOrFail(emailData(to, subject, finalHtmlContent,
                   Obj([cc |-> Get(arg, "cc"), bcc |-> Get(arg, "bcc"), isHtml |-> Bool(TRUE)])))
    /\ UNCHANGED <<op, arg, local>>

SendHtmlStart ==
    /\ pc = "start" /\ op = "sendHtml"
    /\ LET to == Get(arg, "to")
           subject == Get(arg, "subject")
           htmlContent == Get(arg, "htmlContent")
           template == Get(arg, "template")
           finalHtmlContent == IF Truthy(template)
                               THEN applyEmailTemplate(htmlContent, template, subject)
                               ELSE htmlContent
       IN IF ~Truthy(to) \/ ~Truthy(subject) \/ ~Truthy(htmlContent)
          THEN Respond(Response(BadRequest, Undefined)) /\ UNCHANGED trace
          ELSE PostOrFail(emailData(to, subject, finalHtmlContent,
                   Obj([cc |-> Get(arg, "cc"), bcc |-> Get(arg, "bcc"), isHtml |-> Bool(TRUE)])))
    /\ UNCHANGED <<op, arg, local>>

\* POST send/html: from the answer of the provider to the response
SendHtmlAnswer ==
    /\ pc = "awaitSend" /\ op = "sendHtml"
    /\ \E a \in SendAnswers :
          /\ trace' = Append(trace, Answer(a.t # "thrown"))
          /\ IF a.t = "thrown" THEN Respond(Response(ServerError, a))
             ELSE Respond(Response(Ok,
                      [messageId |-> SendResult(a).messageId, to |-> Get(arg, "to"),
                       subject |-> Get(arg, "subject"),
                       template |-> Or(Get(arg, "template"), Str(<<"n", "o", "n", "e">>)),
                       sentAt |-> SendResult(a).sentAt]))
    /\ UNCHANGED <<op, arg, local>>

\* the defaults of senderName, company and priority
DefaultSenderName ==
    Str(<<"P", "r", "o", "f", "e", "s", "s", "i", "o", "n", "a", "l", " ", "T", "e", "a", "m">>)
DefaultCompany == Str(<<"Y", "o", "u", "r", " ", "C", "o", "m", "p", "a", "n", "y">>)
DefaultPriority == Str(<<"n", "o", "r", "m", "a", "l">>)

\* POST send/professional: the check and the page, then sendEmail up to its
\* request; content.split is not a function unless content is a string
SendProfessionalStart ==
    /\ pc = "start" /\ op = "sendProfessional"
    /\ LET to == Get(arg, "to")
           subject == Get(arg, "subject")
           content == Get(arg, "content")
           professionalHtml ==
               Page(Str(<<"p", "r", "o", "f", "e", "s", "s", "i", "o", "n", "a", "l">>),
                    [content |-> content, subject |-> subject,
                     senderName |-> Default(Get(arg, "senderName"), DefaultSenderName),
                     company |-> Default(Get(arg, "company"), DefaultCompany),
                     footer |-> Default(Get(arg, "footer"), Empty),
                     priority |-> Default(Get(arg, "priority"), DefaultPriority)])
       IN IF ~Truthy(to) \/ ~Truthy(subject) \/ ~Truthy(content)
          THEN Respond(Response(BadRequest, Undefined)) /\ UNCHANGED trace
          ELSE IF TypeOf(content) # "string"
               THEN Respond(Response(ServerError, Thrown("TypeError"))) /\ UNCHANGED trace
          ELSE PostOrFail(emailData(to, subject, professionalHtml,
                   Obj([cc |-> Get(arg, "cc"), bcc |-> Get(arg, "bcc"), isHtml |-> Bool(TRUE)])))
    /\ UNCHANGED <<op, arg, local>>

\* POST send/professional: from the answer of the provider to the response
SendProfessionalAnswer ==
    /\ pc = "awaitSend" /\ op = "sendProfessional"
    /\ \E a \in SendAnswers :
          /\ trace' = Append(trace, Answer(a.t # "thrown"))
          /\ IF a.t = "thrown" THEN Respond(Response(ServerError, a))
             ELSE Respond(Response(Ok,
                      [messageId |-> SendResult(a).messageId, to |-> Get(arg, "to"),
                       subject |-> Get(arg, "subject"),
                       priority |-> Default(Get(arg, "priority"), DefaultPriority),
                       senderName |-> Default(Get(arg, "senderName"), DefaultSenderName),
                       company |-> Default(Get(arg, "company"), DefaultCompany),
                       sentAt |-> SendResult(a).sentAt]))
    /\ UNCHANGED <<op, arg, local>>

\* the recipient of one bulk email and the name it is personalized with
RecipientEmail(recipient) ==
    IF TypeOf(recipient) = "string" THEN recipient ELSE Get(recipient, "email")

RecipientName(recipient) ==
    IF TypeOf(recipient) = "object" THEN Get(recipient, "name") ELSE Empty

NamePlaceholder == <<"{", "n", "a", "m", "e", "}">>

\* recipientName ? body.replace(/\{name\}/g, recipientName) : body, for a
\* body that is a string or a name that is falsy
PersonalizedBody(body, recipientName) ==
    IF Truthy(recipientName)
    THEN Str(ReplaceAll(body.s, NamePlaceholder, StringOf(recipientName)))
    ELSE body

\* delayBetweenEmails > 0, for a number
GreaterThanZero(v) == v.t = "number" /\ v.n > 0

\* the entries of results and of errors
SentEntry(recipient, result) ==
    [email |-> RecipientEmail(recipient), name |-> RecipientName(recipient),
     status |-> "sent", messageId |-> result.messageId, sentAt |-> result.sentAt]

FailedEntry(recipient, error) ==
    [email |-> RecipientEmail(recipient), name |-> RecipientName(recipient),
     status |-> "failed", error |-> error]

\* POST send/bulk: the checks, up to the loop
BulkStart ==
    /\ pc = "start" /\ op = "sendBulk"
    /\ LET recipients == Get(arg, "recipients")
       IN IF ~Truthy(recipients) \/ ~IsArray(recipients) \/ Len(recipients.a) = 0
          THEN Respond(Response(BadRequest, Undefined)) /\ UNCHANGED local
          ELSE IF ~Truthy(Get(arg, "subject")) \/ ~Truthy(Get(arg, "body"))
               THEN Respond(Response(BadRequest, Undefined)) /\ UNCHANGED local
          ELSE /\ pc' = "iterate"
               /\ local' = [i |-> 0, results |-> <<>>, errors |-> <<>>]
               /\ UNCHANGED ret
    /\ UNCHANGED <<op, arg, trace>>

\* the catch of the loop body: the recipient is recorded as failed and the
\* loop goes on
CatchInLoop(recipient, error) ==
    /\ local' = [local EXCEPT !.errors = Append(@, FailedEntry(recipient, error)),
                              !.i = @ + 1]
    /\ pc' = "iterate"

\* POST send/bulk: the test of the loop and one pass up to the request of
\* sendEmail, or the response after the last pass.  A recipient that is
\* null has no property email (the catch of the handler); body.replace is
\* not a function unless body is a string (the catch of the loop body).
BulkIterate ==
    /\ pc = "iterate" /\ op = "sendBulk"
    /\ LET recipients == Get(arg, "recipients").a
           body == Get(arg, "body")
           i == local.i
       IN IF i >= Len(recipients)
          THEN /\ Respond(Response(Ok,
                      [summary |-> [totalRecipients |-> Len(recipients),
                                    successful |-> Len(local.results),
                                    failed |-> Len(local.errors),
                                    subject |-> Get(arg, "subject"),
                                    delayUsed |-> Default(Get(arg, "delayBetweenEmails"),
                                                          Num(DefaultDelay))],
                       results |-> local.results,
                       errors |-> local.errors]))
               /\ UNCHANGED <<local, trace>>
          ELSE LET recipient == recipients[i + 1]
               IN IF recipient \in {Null, Undefined}
                  THEN Respond(Response(ServerError, Thrown("TypeError")))
                       /\ UNCHANGED <<local, trace>>
                  ELSE IF Truthy(RecipientName(recipient)) /\ TypeOf(body) # "string"
                       THEN CatchInLoop(recipient, Thrown("TypeError")) /\ UNCHANGED <<ret, trace>>
                  ELSE LET m == emailData(RecipientEmail(recipient), Get(arg, "subject"),
                                          PersonalizedBody(body, RecipientName(recipient)),
                                          Obj([isHtml |-> Default(Get(arg, "isHtml"), Bool(TRUE))]))
                       IN IF m.t = "thrown"
                          THEN CatchInLoop(recipient, m) /\ UNCHANGED <<ret, trace>>
                          ELSE /\ trace' = Append(trace, m)
                               /\ pc' = "awaitSend"
                               /\ UNCHANGED <<ret, local>>
    /\ UNCHANGED <<op, arg>>

\* the bulk handler giving up at the first send that fails
BulkSendAnswer_StopsAtFailure ==
    /\ pc = "awaitSend" /\ op = "sendBulk"
    /\ LET recipients == Get(arg, "recipients").a
           recipient == recipients[local.i + 1]
           delay == Default(Get(arg, "delayBetweenEmails"), Num(DefaultDelay))
       IN \E a \in SendAnswers :
             IF a.t = "thrown"
             THEN /\ trace' = Append(trace, Answer(FALSE))
                  /\ Respond(Response(ServerError, a))
                  /\ UNCHANGED local
             ELSE /\ UNCHANGED ret
                  /\ IF local.i < Len(recipients) - 1 /\ GreaterThanZero(delay)
                     THEN /\ local' = [local EXCEPT
                                 !.results = Append(@, SentEntry(recipient, SendResult(a)))]
                          /\ trace' = trace \o <<Answer(TRUE), [e |-> "delay", ms |-> delay]>>
                          /\ pc' = "awaitDelay"
                     ELSE /\ local' = [local EXCEPT
                                 !.results = Append(@, SentEntry(recipient, SendResult(a))),
                                 !.i = @ + 1]
                          /\ trace' = Append(trace, Answer(TRUE))
                          /\ pc' = "iterate"
    /\ UNCHANGED <<op, arg>>

\* POST send/bulk: from the answer of the provider to the timer, or to the
\* next test of the loop.  The timer is set after a send that succeeded,
\* when the recipient is not the last and the delay is positive.
BulkSendAnswer ==
    /\ pc = "awaitSend" /\ op = "sendBulk"
    /\ LET recipients == Get(arg, "recipients").a
           recipient == recipients[local.i + 1]
           delay == Default(Get(arg, "delayBetweenEmails"), Num(DefaultDelay))
       IN \E a \in SendAnswers :
             IF a.t = "thrown"
             THEN /\ trace' = Append(trace, Answer(FALSE))
                  /\ CatchInLoop(recipient, a)
             ELSE IF local.i < Len(recipients) - 1 /\ GreaterThanZero(delay)
                  THEN /\ local' = [local EXCEPT
                              !.results = Append(@, SentEntry(recipient, SendResult(a)))]
                       /\ trace' = trace \o <<Answer(TRUE), [e |-> "delay", ms |-> delay]>>
                       /\ pc' = "awaitDelay"
                  ELSE /\ local' = [local EXCEPT
                              !.results = Append(@, SentEntry(recipient, SendResult(a))),
                              !.i = @ + 1]
                       /\ trace' = Append(trace, Answer(TRUE))
                       /\ pc' = "iterate"
    /\ UNCHANGED <<op, arg, ret>>

\* POST send/bulk: the timer fires and the pass ends
BulkDelayElapsed ==
    /\ pc = "awaitDelay" /\ op = "sendBulk"
    /\ local' = [local EXCEPT !.i = @ + 1]
    /\ pc' = "iterate"
    /\ UNCHANGED <<op, arg, ret, trace>>

\* 'Re: '
RePrefix == <<"R", "e", ":", " ">>

\* s.startsWith(p)
StartsWith(s, p) == Len(s) >= Len(p) /\ SubSeq(s, 1, Len(p)) = p

\* the reply body with the original message after it: what the text is
\* made from
Quoted(body, originalEmail, isHtml) ==
    [t |-> "quoted", body |-> body, isHtml |-> Truthy(isHtml),
     from |-> originalEmail.f.from, fromName |-> originalEmail.f.fromName,
     date |-> originalEmail.f.date, subject |-> originalEmail.f.subject,
     original |-> IF Truthy(isHtml)
                  THEN Or(originalEmail.f.htmlBody, originalEmail.f.plainTextBody)
                  ELSE originalEmail.f.plainTextBody]

\* POST reply: the check, then getEmailById up to its request
ReplyStart ==
    /\ pc = "start" /\ op = "reply"
    /\ IF ~Truthy(Get(arg, "body"))
       THEN Respond(Response(BadRequest, Undefined)) /\ UNCHANGED trace
       ELSE /\ trace' = Append(trace, [e |-> "get"])
            /\ pc' = "awaitGet"
            /\ UNCHANGED ret
    /\ UNCHANGED <<op, arg, local>>

\* POST reply after getEmailById has returned originalEmailResult: the
\* subject and the recipient of the reply, then sendEmail up to its request.
\* subject.startsWith is not a function unless the subject is a string.
ReplyToOriginal(originalEmailResult) ==
    LET originalEmail == originalEmailResult.f.email
        subject == originalEmail.f.subject
        isHtml == Default(Get(arg, "isHtml"), Bool(TRUE))
        includeOriginal == Default(Get(arg, "includeOriginal"), Bool(TRUE))
    IN IF TypeOf(subject) # "string"
       THEN /\ trace' = Append(trace, Answer(TRUE))
            /\ Respond(Response(ServerError, Thrown("TypeError")))
            /\ UNCHANGED local
       ELSE LET replySubject == IF StartsWith(subject.s, RePrefix) THEN subject
                                ELSE Str(RePrefix \o subject.s)
                replyTo == originalEmail.f.from
                replyBody == IF Truthy(includeOriginal)
                             THEN Quoted(Get(arg, "body"), originalEmail, isHtml)
                             ELSE Get(arg, "body")
                m == emailData(replyTo, replySubject, replyBody,
                               Obj([isHtml |-> isHtml, inReplyTo |-> originalEmail.f.messageId]))
            IN IF m.t = "thrown"
               THEN /\ trace' = Append(trace, Answer(TRUE))
                    /\ Respond(Response(ServerError, m))
                    /\ UNCHANGED local
               ELSE /\ trace' = trace \o <<Answer(TRUE), m>>
                    /\ pc' = "awaitSend"
                    /\ local' = [replyTo |-> replyTo, replySubject |-> replySubject]
                    /\ UNCHANGED ret

\* raw records the provider answers a fetch with: those of the service, one
\* with a subject that is a reply already, one with a subject that is a
\* number
ReplyRaws ==
    ServiceRaws \cup
    { Obj([id |-> Str(<<"4">>), subject |-> Str(<<"R", "e", ":", " ", "x">>),
           from_attendee |-> Obj([email |-> Str(<<"e", "@", "x", ".", "y">>)]),
           message_id |-> Str(<<"m", "4">>)]),
      Obj([id |-> Str(<<"5">>), subject |-> Num(7)]) }

\* what getEmailById returns or throws: the provider fails, or answers with
\* a raw record that getEmailById normalizes
FetchResults == {Thrown("Error")} \cup {getEmailById(r) : r \in ReplyRaws}

\* the reply handler going on with a record without fields when the fetch
\* has failed
ReplyFetched_IgnoresFailure ==
    /\ pc = "awaitGet" /\ op = "reply"
    /\ \E originalEmailResult \in FetchResults :
             IF originalEmailResult.t = "thrown"
             THEN /\ trace' = trace \o
                        <<Answer(FALSE),
                          emailData(Unknown, Str(RePrefix), Get(arg, "body"), Obj([x \in {} |-> Undefined]))>>
                  /\ pc' = "awaitSend"
                  /\ local' = [replyTo |-> Unknown, replySubject |-> Str(RePrefix)]
                  /\ UNCHANGED ret
             ELSE ReplyToOriginal(originalEmailResult)
    /\ UNCHANGED <<op, arg>>

\* POST reply: from the answer to the fetch to the request of sendEmail, or
\* to the response with status 500 when getEmailById has thrown
ReplyFetched ==
    /\ pc = "awaitGet" /\ op = "reply"
    /\ \E originalEmailResult \in FetchResults :
             IF originalEmailResult.t = "thrown"
             THEN /\ trace' = Append(trace, Answer(FALSE))
                  /\ Respond(Response(ServerError, originalEmailResult))
                  /\ UNCHANGED local
             ELSE ReplyToOriginal(originalEmailResult)
    /\ UNCHANGED <<op, arg>>

\* POST reply: from the answer of the provider to the response
ReplySendAnswer ==
    /\ pc = "awaitSend" /\ op = "reply"
    /\ \E a \in SendAnswers :
          /\ trace' = Append(trace, Answer(a.t # "thrown"))
          /\ IF a.t = "thrown" THEN Respond(Response(ServerError, a))
             ELSE Respond(Response(Ok,
                      [messageId |-> SendResult(a).messageId, replyTo |-> local.replyTo,
                       subject |-> local.replySubject,
                       includeOriginal |-> Default(Get(arg, "includeOriginal"), Bool(TRUE)),
                       sentAt |-> SendResult(a).sentAt]))
    /\ UNCHANGED <<op, arg, local>>

\* an address, a subject and a text for the requests
Address == Str(<<"a", "@", "b", ".", "c">>)
Subject == Str(<<"S">>)
Text == Str(<<"H", "i", " ", "{", "n", "a", "m", "e", "}">>)

\* a recipient with a name
Named == Obj([email |-> Str(<<"b", "@", "b", ".", "c">>), name |-> Str(<<"B", "o">>)])

\* req.body with each field of the sequence fs there or not, with one of its
\* values
RECURSIVE Combine(_)
Combine(fs) ==
    IF fs = <<>> THEN {[x \in {} |-> Undefined]}
    ELSE {Merge(f, g) : f \in Fields(Head(fs)[1], Head(fs)[2]), g \in Combine(Tail(fs))}

\* the recipients of a single send: one, two, an array with null, null
Tos == {Address, Arr(<<Address, Named>>), Arr(<<Null>>), Null}

SendRequests ==
    {Obj(f) : f \in Combine(<< <<"to", Tos>>, <<"subject", {Subject, Empty}>>,
                              <<"body", {Text, Num(0)}>>, <<"cc", {Address}>> >>)}

SendHtmlRequests ==
    {Obj(f) : f \in Combine(<< <<"to", Tos>>, <<"subject", {Subject}>>,
                              <<"htmlContent", {Text, Empty}>>,
                              <<"template", {Str(<<"s", "i", "m", "p", "l", "e">>), Str(<<"x">>)}>> >>)}

SendProfessionalRequests ==
    {Obj(f) : f \in Combine(<< <<"to", Tos>>, <<"subject", {Subject}>>,
                              <<"content", {Text, Num(5), Null}>>,
                              <<"priority", {Str(<<"h", "i", "g", "h">>)}>> >>)}

\* a string, an object with a name, and null
BulkRecipients == {Address, Named, Null}

BulkRequests ==
    {Obj(f) : f \in Combine(<< <<"recipients", {Address} \cup {Arr(a) : a \in SeqsUpTo(BulkRecipients, MaxRecipients)}>>,
                              <<"subject", {Subject}>>,
                              <<"body", {Text, Num(5)}>>,
                              <<"delayBetweenEmails", {Num(0), Num(5)}>> >>)}

ReplyRequests ==
    {Obj(f) : f \in Combine(<< <<"body", {Text, Empty, Null}>>,
                              <<"includeOriginal", {Bool(FALSE)}>>,
                              <<"isHtml", {Bool(FALSE)}>> >>)}

\* a request has arrived at one of the routes
InitHandlers ==
    /\ pc = "start"
    /\ ret = NoValue
    /\ local = NoValue /\ trace = <<>>
    /\ \/ op = "send" /\ arg \in SendRequests
       \/ op = "sendHtml" /\ arg \in SendHtmlRequests
       \/ op = "sendProfessional" /\ arg \in SendProfessionalRequests
       \/ op = "sendBulk" /\ arg \in BulkRequests
       \/ op = "reply" /\ arg \in ReplyRequests

NextHandlers ==
    \/ SendStart
    \/ SendAnswer
    \/ SendHtmlStart
    \/ SendHtmlAnswer
    \/ SendProfessionalStart
    \/ SendProfessionalAnswer
    \/ BulkStart
    \/ BulkIterate
    \/ BulkSendAnswer
    \/ BulkDelayElapsed
    \/ ReplyStart
    \/ ReplyFetched
    \/ ReplySendAnswer

SpecHandlers == InitHandlers /\ [][NextHandlers]_vars

(***************************************************************************)
(* Claims about htmlToText.                                                *)
(***************************************************************************)
Returned(f) == pc = "done" /\ op = f

HasChar(s, c) == \E i \in 1..Len(s) : s[i] = c

\* C2 as stated: htmlToText is idempotent, htmlToText(htmlToText(s)) equals
\* htmlToText(s) for every string s.
C2_Idempotent ==
    Returned("htmlToText") => htmlToText(ret) = ret

\* C2 (amended): htmlToText(htmlToText(s)) equals htmlToText(s) for every
\* input s whose decoded text htmlToText(s) contains no `<` and no `&`.
C2_IdempotentOnPlainText ==
    (Returned("htmlToText") /\ ~HasChar(ret.s, "<") /\ ~HasChar(ret.s, "&"))
        => htmlToText(ret) = ret

\* an input with a tag and a newline was decoded to non-empty text free of
\* `<` and `&`
C2_Witness ==
    /\ Returned("htmlToText")
    /\ arg.html.t = "string" /\ HasChar(arg.html.s, "<") /\ HasChar(arg.html.s, "\n")
    /\ ret.s # <<>> /\ ~HasChar(ret.s, "<") /\ ~HasChar(ret.s, "&")

AmpEntity == <<"&", "a", "m", "p", ";">>

\* C3: each entity occurrence is decoded exactly once: an input that is an
\* escaped entity, `&amp;` followed by the rest of an entity (`&amp;lt;`,
\* `&amp;amp;`), yields the entity text (`&lt;`, `&amp;`), never the doubly
\* unescaped character.
C3_DecodedOnce ==
    \A rest \in {<<"l", "t", ";">>, <<"a", "m", "p", ";">>} :
        (Returned("htmlToText") /\ arg.html = Str(AmpEntity \o rest))
            => ret = Str(<<"&">> \o rest)

RECURSIVE RawTextFrom(_, _)
\* the indices of s inside a script or style element: the text between an
\* opening tag and the first closing tag of its kind after it, the document
\* read left to right
RawTextFrom(s, i) ==
    IF i > Len(s) THEN {}
    ELSE LET open == IF MatchAtCI(s, i, ScriptOpen) THEN ScriptOpen
                     ELSE IF MatchAtCI(s, i, StyleOpen) THEN StyleOpen ELSE <<>>
             close == IF open = ScriptOpen THEN ScriptClose ELSE StyleClose
             g == IF open = <<>> THEN 0 ELSE IndexOf(s, i + Len(open), <<">">>)
             e == IF g = 0 THEN 0 ELSE IndexOfCI(s, g + 1, close)
         IN IF e # 0 THEN (g + 1)..(e - 1) \cup RawTextFrom(s, e + Len(close))
            ELSE RawTextFrom(s, i + 1)

\* C4: htmlToText removes each script block and each style block before it
\* strips other tags: when all the text `x` of the input is inside script or
\* style elements, no `x` appears in the output.
C4_NoScriptOrStyleText ==
    (/\ Returned("htmlToText") /\ arg.html.t = "string"
     /\ \A i \in 1..Len(arg.html.s) :
            arg.html.s[i] = "x" => i \in RawTextFrom(arg.html.s, 1))
        => ~HasChar(ret.s, "x")

\* a script block with text in it was removed
C4_Witness ==
    /\ Returned("htmlToText") /\ arg.html.t = "string"
    /\ HasChar(arg.html.s, "x")
    /\ \A i \in 1..Len(arg.html.s) :
            arg.html.s[i] = "x" => i \in RawTextFrom(arg.html.s, 1)
    /\ ~HasChar(ret.s, "x")

(***************************************************************************)
(* Claims about extractSender and extractRecipients.                       *)
(***************************************************************************)
IsObject(v) == v.t \in {"object", "array"}

\* C5 as stated: extractSender resolves its input by a fixed priority: an
\* object by key lookup; otherwise a string containing `name <address>` as
\* bracketed; otherwise a string matching the single-address pattern yields
\* {email: that string, name: ""}; otherwise any other non-empty string
\* yields {email: "Unknown", name: that string}; every other input yields
\* {email: "Unknown", name: ""}.
C5_Priority ==
    Returned("extractSender") =>
        LET v == arg.attendeeObj
        IN ret = IF IsObject(v) THEN ObjectIdentity(v)
                 ELSE IF v.t = "string" /\ BracketMatch(v.s) # <<>>
                      THEN BracketIdentity(v.s, BracketMatch(v.s))
                 ELSE IF v.t = "string" /\ IsEmailAddress(v.s) THEN Identity(v, Empty)
                 ELSE IF v.t = "string" /\ v.s # <<>> THEN Identity(Unknown, v)
                 ELSE Identity(Unknown, Empty)

\* C5 (amended): the same priority, the two unbracketed string cases taken
\* on the trimmed string: a string whose trimmed form matches the
\* single-address pattern yields {email: the trimmed string, name: ""}, and
\* any other string yields {email: "Unknown", name: the trimmed string}.
C5_PriorityTrimmed ==
    Returned("extractSender") =>
        LET v == arg.attendeeObj
        IN /\ IsObject(v) => ret = ObjectIdentity(v)
           /\ (v.t = "string" /\ BracketMatch(v.s) # <<>>)
                  => ret = BracketIdentity(v.s, BracketMatch(v.s))
           /\ (v.t = "string" /\ BracketMatch(v.s) = <<>> /\ IsEmailAddress(Trim(v.s)))
                  => ret = Identity(Str(Trim(v.s)), Empty)
           /\ (v.t = "string" /\ BracketMatch(v.s) = <<>> /\ ~IsEmailAddress(Trim(v.s)))
                  => ret = Identity(Unknown, Str(Trim(v.s)))
           /\ (~IsObject(v) /\ v.t # "string") => ret = Identity(Unknown, Empty)

\* a string that is bracketed and also matches the single-address pattern
\* was resolved as bracketed
C5_Witness ==
    /\ Returned("extractSender") /\ arg.attendeeObj.t = "string"
    /\ BracketMatch(arg.attendeeObj.s) # <<>>
    /\ IsEmailAddress(Trim(arg.attendeeObj.s))
    /\ ret.f.email # arg.attendeeObj

\* the value of the first key of keys that o holds a non-empty value for
FirstNonEmpty(o, keys, default) ==
    LET S == {i \in 1..Len(keys) : Truthy(Get(o, keys[i]))}
    IN IF S = {} THEN default ELSE Get(o, keys[Min(S)])

\* C6 as stated: for an object, the email is that of the first non-empty key
\* in the order email, identifier, address, mail and the name that of the
\* first non-empty key in the order name, display_name, personal, full_name,
\* each independently; "Unknown" and "" when no key is non-empty.
C6_KeyOrder ==
    (Returned("extractSender") /\ arg.attendeeObj.t = "object") =>
        ret = Identity(
            FirstNonEmpty(arg.attendeeObj, <<"email", "identifier", "address", "mail">>, Unknown),
            FirstNonEmpty(arg.attendeeObj,
                <<"name", "display_name", "personal", "full_name">>, Empty))

\* C6 (amended): as stated, with the name keys in the order name,
\* display_name, displayName, personal, full_name, fullName.
C6_KeyOrderAllNames ==
    (Returned("extractSender") /\ arg.attendeeObj.t = "object") =>
        ret = Identity(
            FirstNonEmpty(arg.attendeeObj, <<"email", "identifier", "address", "mail">>, Unknown),
            FirstNonEmpty(arg.attendeeObj,
                <<"name", "display_name", "displayName", "personal", "full_name", "fullName">>,
                Empty))

\* an empty earlier key was passed over for a later one, for both fields
C6_Witness ==
    /\ Returned("extractSender") /\ arg.attendeeObj.t = "object"
    /\ "email" \in DOMAIN arg.attendeeObj.f /\ ~Truthy(Get(arg.attendeeObj, "email"))
    /\ ret.f.email = KeyValue("identifier") /\ ret.f.name = KeyValue("personal")

\* t without the quotes and whitespace around it
StripQuotesAndSpaces(t) ==
    LET N == {k \in 1..Len(t) : ~IsSpace(t[k]) /\ t[k] # "\""}
    IN IF N = {} THEN <<>> ELSE SubSeq(t, Min(N), Max(N))

\* s is one line `Display Name <address>`: one `<`, then an address, then one
\* `>` that ends the string
IsBracketedShape(s) ==
    /\ Cardinality({k \in 1..Len(s) : s[k] = "<"}) = 1
    /\ Cardinality({k \in 1..Len(s) : s[k] = ">"}) = 1
    /\ \A k \in 1..Len(s) : ~IsLineTerminator(s[k])
    /\ s[Len(s)] = ">"
    /\ IndexOf(s, 1, <<"<">>) + 1 < Len(s)
    /\ BracketMatch(s) # <<>>

\* C7: for a string of the shape `Display Name <address>`, the name is the
\* text before `<` with its surrounding quotes and whitespace removed (so it
\* neither starts nor ends with a quote or a whitespace character), and the
\* email is the text inside `<...>`, trimmed.
C7_BracketedName ==
    (Returned("extractSender") /\ arg.attendeeObj.t = "string"
        /\ IsBracketedShape(arg.attendeeObj.s)) =>
        LET s == arg.attendeeObj.s
            m == BracketMatch(s)
        IN /\ ret.f.name = Str(StripQuotesAndSpaces(Sub(s, 1, m[3] - 1)))
           /\ ret.f.email = Str(Trim(Sub(s, m[3] + 1, m[4] - 1)))

\* a quoted display name before a bracketed address was resolved
C7_Witness ==
    /\ Returned("extractSender")
    /\ arg.attendeeObj =
            Str(<<"\"", "a", "@", "b", ".", "c", "\"", "<", "a", "@", "b", ".", "c", ">">>)
    /\ ret = Identity(Str(<<"a", "@", "b", ".", "c">>), Str(<<"a", "@", "b", ".", "c">>))

IsIdentity(v) ==
    /\ v.t = "object" /\ DOMAIN v.f = {"email", "name"}
    /\ v.f.email.t = "string" /\ v.f.email.s # <<>>
    /\ v.f.name.t = "string"

\* C8: every Identity extractSender produces, and every element
\* extractRecipients produces, has a string email that is a non-empty
\* address or the sentinel "Unknown", never empty or missing, and a string
\* name.
C8_IdentityInvariant ==
    /\ Returned("extractSender") => IsIdentity(ret)
    /\ Returned("extractRecipients") => \A i \in 1..Len(ret.a) : IsIdentity(ret.a[i])

\* an input without an address was resolved to the sentinel
C8_Witness ==
    /\ Returned("extractSender")
    /\ arg.attendeeObj = Str(<<"a", "@", "b", ".", "c", " ", "a", "@", "b", ".", "c">>)
    /\ ret.f.email = Unknown

\* C9: extractRecipients returns the empty sequence for every non-array
\* input and never fails; for an array it returns a sequence of the same
\* length whose i-th element is extractSender of the i-th input element,
\* order and duplicates kept.
C9_ElementWise ==
    Returned("extractRecipients") =>
        IF arg.attendeesArray.t = "array"
        THEN /\ ret.t = "array"
             /\ Len(ret.a) = Len(arg.attendeesArray.a)
             /\ \A i \in 1..Len(ret.a) : ret.a[i] = extractSender(arg.attendeesArray.a[i])
        ELSE ret = Arr(<<>>)

\* an array holding the same attendee twice was mapped
C9_Witness ==
    /\ Returned("extractRecipients") /\ arg.attendeesArray.t = "array"
    /\ Len(arg.attendeesArray.a) >= 2
    /\ arg.attendeesArray.a[1] = arg.attendeesArray.a[2]
    /\ ret.a[1] = ret.a[2] /\ ret.a[1].f.email # Unknown

(***************************************************************************)
(* Claims about generatePreview and processEmail.                          *)
(***************************************************************************)
\* the content a preview is made of: the plain body when it is a string of
\* more than 10 characters, otherwise the text decoded from the HTML body;
\* whitespace collapsed as htmlToText collapses it
SelectedContent(body, plainBody) ==
    CleanSpaces(IF plainBody.t = "string" /\ Len(plainBody.s) > MinPlainLength
                THEN plainBody.s ELSE htmlToText(body).s)

MaxLengthOf(m) == IF m = Undefined THEN DefaultMaxLength ELSE m.n

\* C10 as stated: for any maxLength and any pair of bodies, the preview has
\* length at most maxLength + 3, exactly maxLength + 3 if and only if the
\* selected content is strictly longer than maxLength, and is then the first
\* maxLength characters of the content followed by "...".
C10_PreviewLength ==
    Returned("generatePreview") =>
        LET max == MaxLengthOf(arg.maxLength)
            content == SelectedContent(arg.body, arg.plainBody)
        IN /\ Len(ret.s) <= max + 3
           /\ Len(ret.s) = max + 3 <=> Len(content) > max
           /\ Len(content) > max => ret.s = Sub(content, 1, max) \o Ellipsis

\* C10 (amended): for any maxLength >= 0 and any pair of bodies whose
\* selected content is not empty after whitespace cleaning (so that the
\* preview is no sentinel), the preview has length at most maxLength + 3,
\* exactly maxLength + 3 if and only if the cleaned content is strictly
\* longer than maxLength, and is then its first maxLength characters
\* followed by "...".
C10_PreviewLengthOfContent ==
    (Returned("generatePreview") /\ MaxLengthOf(arg.maxLength) >= 0
        /\ SelectedContent(arg.body, arg.plainBody) # <<>>) =>
        LET max == MaxLengthOf(arg.maxLength)
            content == SelectedContent(arg.body, arg.plainBody)
        IN /\ Len(ret.s) <= max + 3
           /\ Len(ret.s) = max + 3 <=> Len(content) > max
           /\ Len(content) > max => ret.s = Sub(content, 1, max) \o Ellipsis

\* a plain body longer than maxLength was cut in the middle of its text
C10_Witness ==
    /\ Returned("generatePreview") /\ arg.maxLength # Undefined /\ arg.maxLength.n >= 2
    /\ arg.plainBody.t = "string" /\ Len(arg.plainBody.s) > MinPlainLength
    /\ Len(SelectedContent(arg.body, arg.plainBody)) > arg.maxLength.n
    /\ Len(ret.s) = arg.maxLength.n + 3

\* C1: processEmail never fails: for every raw record, whatever fields are
\* absent and whatever type a present field has (a non-string body or
\* body_plain included), it returns a normalized record and does not throw.
C1_NeverThrows ==
    Returned("processEmail") => ret.t = "object"

\* a record without body, body_plain and attendees was normalized
C1_Witness ==
    /\ Returned("processEmail") /\ DOMAIN arg.email.f = {"id"}
    /\ ret.t = "object" /\ ret.f.plainTextBody = Empty /\ ret.f.from = Unknown

(***************************************************************************)
(* Claims about the selection of the preview and the body fields.          *)
(***************************************************************************)
\* a source of preview text exists: a plain body that is a string of more
\* than 10 characters, or an HTML body that is a non-empty string
SourceExists(body, plainBody) ==
    \/ plainBody.t = "string" /\ Len(plainBody.s) > MinPlainLength
    \/ body.t = "string" /\ body.s # <<>>

\* C11: generatePreview uses plainBody when it is a string longer than 10
\* characters, otherwise the text decoded from the HTML body; it returns
\* "No content available" only when neither source existed at all, and
\* "Empty message" whenever a source existed but the content is empty after
\* selection and whitespace cleaning (maxLength not negative).
C11_SelectPreview ==
    (Returned("generatePreview") /\ MaxLengthOf(arg.maxLength) >= 0) =>
        LET content == SelectedContent(arg.body, arg.plainBody)
            exists == SourceExists(arg.body, arg.plainBody)
        IN /\ ret = Str(NoContentAvailable) => ~exists
           /\ (exists /\ content = <<>>) => ret = Str(EmptyMessage)
           /\ (content # <<>> /\ Len(content) <= MaxLengthOf(arg.maxLength))
                  => ret = Str(content)

\* a plain body of more than 10 whitespace characters was selected over a
\* body with text and gave the "Empty message" sentinel
C11_Witness ==
    /\ Returned("generatePreview")
    /\ arg.plainBody.t = "string" /\ Len(arg.plainBody.s) > MinPlainLength
    /\ arg.body.t = "string" /\ htmlToText(arg.body).s # <<>>
    /\ ret = Str(EmptyMessage)

\* the field is there and holds a value: neither undefined nor null
Present(v) == v.t \notin {"undefined", "null"}

\* C12 as stated: in the normalized record, htmlBody is raw.body, or "" when
\* raw.body is absent; plainTextBody is raw.body_plain when that is present
\* and non-empty, and otherwise htmlToText(htmlBody).
C12_Bodies ==
    (Returned("processEmail") /\ ret.t = "object") =>
        LET body == Get(arg.email, "body")
            body_plain == Get(arg.email, "body_plain")
        IN /\ ret.f.htmlBody = IF Present(body) THEN body ELSE Empty
           /\ ret.f.plainTextBody =
                  IF Present(body_plain) /\ body_plain # Empty THEN body_plain
                  ELSE htmlToText(ret.f.htmlBody)

\* C12 (amended): in the normalized record, htmlBody is raw.body when that
\* is truthy and "" otherwise (absent, null, "", 0 or false); plainTextBody
\* is raw.body_plain when that is truthy, and otherwise htmlToText(htmlBody).
C12_BodiesTruthy ==
    (Returned("processEmail") /\ ret.t = "object") =>
        LET body == Get(arg.email, "body")
            body_plain == Get(arg.email, "body_plain")
        IN /\ ret.f.htmlBody = IF Truthy(body) THEN body ELSE Empty
           /\ ret.f.plainTextBody =
                  IF Truthy(body_plain) THEN body_plain ELSE htmlToText(ret.f.htmlBody)

\* a record with markup in body and an empty body_plain got the decoded text
\* as its plainTextBody
C12_Witness ==
    /\ Returned("processEmail") /\ ret.t = "object"
    /\ Get(arg.email, "body_plain") = Empty
    /\ Get(arg.email, "body").t = "string" /\ HasChar(Get(arg.email, "body").s, "<")
    /\ ret.f.htmlBody = Get(arg.email, "body")
    /\ ret.f.plainTextBody = Str(<<"H", "i", " ", "t", "h", "e", "r", "e">>)

(***************************************************************************)
(* Claims about the derived fields of the normalized record.               *)
(***************************************************************************)
\* the number of non-empty tokens of s delimited by whitespace
WhitespaceTokens(s) ==
    Cardinality({i \in 1..Len(s) : ~IsSpace(s[i]) /\ (i = 1 \/ IsSpace(s[i - 1]))})

\* C13: for every raw record, wordCount of the normalized record equals the
\* number of non-empty tokens of plainTextBody delimited by whitespace
\* (spaces, tabs and newlines alike).
C13_WordCount ==
    (Returned("processEmail") /\ ret.t = "object") =>
        ret.f.wordCount = Num(WhitespaceTokens(ret.f.plainTextBody.s))

\* the two words of a plain text decoded from markup were counted
C13_Witness ==
    /\ Returned("processEmail") /\ ret.t = "object"
    /\ ~Truthy(Get(arg.email, "body_plain"))
    /\ ret.f.plainTextBody = Str(<<"H", "i", " ", "t", "h", "e", "r", "e">>)
    /\ ret.f.wordCount = Num(2)

\* the least integer that is at least n / d
CeilDiv(n, d) == CHOOSE c \in 0..n : c * d >= n /\ (c - 1) * d < n

\* C14: for every raw record, including one with an empty body,
\* estimatedReadTime equals max(1, ceil(wordCount / 200)) computed from the
\* same record's wordCount, and is therefore at least 1.
C14_ReadTime ==
    (Returned("processEmail") /\ ret.t = "object") =>
        /\ ret.f.estimatedReadTime =
               Num(Max({1, CeilDiv(ret.f.wordCount.n, WordsPerMinute)}))
        /\ ret.f.estimatedReadTime.n >= 1

\* a text of one word more than a minute's reading got two minutes
C14_Witness ==
    /\ Returned("processEmail") /\ ret.t = "object"
    /\ ret.f.wordCount = Num(WordsPerMinute + 1)
    /\ ret.f.estimatedReadTime = Num(2)

\* C15 as stated: isRead of the normalized record is true if and only if the
\* raw record's read_date is present and non-null, whatever its value; it is
\* false exactly when the field is absent or null.
C15_IsRead ==
    (Returned("processEmail") /\ ret.t = "object") =>
        ret.f.isRead = Bool(Present(Get(arg.email, "read_date")))

\* C15 (amended): isRead is true if and only if read_date is present and
\* neither null nor another falsy value ("", 0, false); it is false when the
\* field is absent, null or falsy.
C15_IsReadTruthy ==
    (Returned("processEmail") /\ ret.t = "object") =>
        ret.f.isRead =
            Bool(Get(arg.email, "read_date") \notin {Undefined, Null, Empty, Num(0), Bool(FALSE)})

\* a record with a date in read_date was marked read
C15_Witness ==
    /\ Returned("processEmail") /\ ret.t = "object"
    /\ Get(arg.email, "read_date") = Str(<<"2", "0", "2", "4">>)
    /\ ret.f.isRead = Bool(TRUE)

\* C16: processEmail never modifies its raw input: after the call every
\* field of the raw record has the value it had before the call, and the
\* returned record is a newly created value, not the raw record.
C16_RawUnchanged ==
    [][(pc = "call" /\ op = "processEmail") =>
            /\ arg'.email = arg.email
            /\ \A k \in DOMAIN arg.email.f : Get(arg'.email, k) = arg.email.f[k]
            /\ ret'.t = "object" => ret' # arg.email]_vars

\* a record with attendees, a body and a read marker was normalized and
\* still has them
C16_Witness ==
    /\ Returned("processEmail") /\ ret.t = "object"
    /\ {"from_attendee", "to_attendees", "body", "read_date"} \subseteq DOMAIN arg.email.f
    /\ Get(arg.email, "body").t = "string" /\ ret.f.htmlBody = Get(arg.email, "body")
    /\ ret.f._debug.f.originalFromAttendee = Get(arg.email, "from_attendee")

(***************************************************************************)
(* Claims about categorizeEmail.                                           *)
(***************************************************************************)
\* the string v contains w, letters compared without their case
ContainsCI(v, w) == v.t = "string" /\ \E i \in 1..Len(v.s) : MatchAtCI(v.s, i, w)

ContainsAnyCI(v, words) == \E w \in words : ContainsCI(v, w)

\* the string v has six digits in a row
HasDigitRun(v) ==
    /\ v.t = "string"
    /\ \E i \in 1..Len(v.s) : i + 5 <= Len(v.s) /\ \A k \in 0..5 : IsDigit(v.s[i + k])

Labels == {Security, Social, Work, Marketing, General}

\* C17: categorizeEmail returns exactly one label of {security, social,
\* work, marketing, general}, chosen by the first matching rule in the order
\* security (subject contains security/verification/verify/code or a bare
\* 6-digit run), social (sender contains instagram/facebook/linkedin/
\* twitter), work (sender contains the organization token or subject
\* contains employee/work/project), marketing (subject contains
\* update/launch/new/deal), else general; matching is case-insensitive and a
\* later rule never overrides an earlier matching one.  Stated of the calls
\* that return.
C17_FirstMatchingRule ==
    (Returned("categorizeEmail") /\ ret.t # "thrown") =>
        /\ ret \in Labels
        /\ ret = IF ContainsAnyCI(arg.subject, SecurityWords) \/ HasDigitRun(arg.subject)
                 THEN Security
                 ELSE IF ContainsAnyCI(arg.sender, SocialWords) THEN Social
                 ELSE IF ContainsAnyCI(arg.sender, OrganizationWords)
                         \/ ContainsAnyCI(arg.subject, WorkWords)
                      THEN Work
                 ELSE IF ContainsAnyCI(arg.subject, MarketingWords) THEN Marketing
                 ELSE General

\* a subject with a security word and a marketing word in upper case, from a
\* social sender, was labelled security
C17_Witness ==
    /\ Returned("categorizeEmail")
    /\ ContainsCI(arg.subject, KW_VERIFY) /\ ContainsCI(arg.subject, KW_DEAL)
    /\ ~Includes(arg.subject.s, KW_DEAL)
    /\ ContainsAnyCI(arg.sender, SocialWords)
    /\ ret = Security

(***************************************************************************)
(* Claims about extractKeyInfo.                                            *)
(***************************************************************************)
\* a has no two equal elements
NoDuplicates(a) == \A i, j \in 1..Len(a) : a[i] = a[j] => i = j

\* the elements of a
Range(a) == {a[i] : i \in 1..Len(a)}

\* C18: the links of extractKeyInfo are the http(s):// tokens of the body
\* only (never of the subject), deduplicated with first-appearance order
\* kept and then cut to the first 3: the result has no duplicate, has at
\* most 3 entries, and has 3 entries whenever the body contains at least 3
\* distinct URLs.
C18_Links ==
    (Returned("extractKeyInfo") /\ ret.t # "thrown") =>
        LET urls == UrlMatches(arg.body.s)
            links == ret.f.links.a
        IN /\ NoDuplicates(links)
           /\ Len(links) <= 3
           /\ Cardinality(Range(urls)) >= 3 => Len(links) = 3
           /\ \A i \in 1..Len(links) : links[i] \in {Str(u) : u \in Range(urls)}

\* a body with three different URLs, and another in the subject, gave the
\* three of the body
C18_Witness ==
    /\ Returned("extractKeyInfo") /\ ret.t # "thrown"
    /\ UrlMatches(StringOf(arg.subject)) # <<>>
    /\ Len(ret.f.links.a) = 3 /\ NoDuplicates(ret.f.links.a)
    /\ ret.f.links = StrArr(UrlMatches(arg.body.s))

\* subject + " " + body
KeyInfoText(subject, body) == StringOf(subject) \o <<" ">> \o StringOf(body)

\* s[i..e] is a standalone run of digits: all digits, with no word character
\* (a letter, a digit or an underscore) right before it or right after it
IsStandaloneRun(s, i, e) ==
    /\ 1 <= i /\ i <= e /\ e <= Len(s)
    /\ \A k \in i..e : IsDigit(s[k])
    /\ i = 1 \/ ~IsWordChar(s[i - 1])
    /\ e = Len(s) \/ ~IsWordChar(s[e + 1])

\* the standalone runs of 4 to 8 digits of s, as pairs of indices
CodeRuns(s) ==
    {r \in {<<i, i + n - 1>> : i \in 1..Len(s), n \in 4..8} : IsStandaloneRun(s, r[1], r[2])}

\* where the code c first appears in s
FirstAppearance(s, c) == Min({r[1] : r \in {q \in CodeRuns(s) : Sub(s, q[1], q[2]) = c.s}})

\* C19: the codes of extractKeyInfo are exactly the standalone runs of 4 to
\* 8 digits found in subject + " " + body, each listed once, in order of
\* first appearance; a digit run shorter than 4 or longer than 8 contributes
\* no code.
C19_Codes ==
    (Returned("extractKeyInfo") /\ ret.t # "thrown") =>
        LET text == KeyInfoText(arg.subject, arg.body)
            codes == ret.f.codes.a
        IN /\ Range(codes) = {Str(Sub(text, r[1], r[2])) : r \in CodeRuns(text)}
           /\ NoDuplicates(codes)
           /\ \A k, l \in 1..Len(codes) :
                  k < l => FirstAppearance(text, codes[k]) < FirstAppearance(text, codes[l])

\* a subject with a code and a body with the same code and a run of digits
\* that is no code gave the code once
C19_Witness ==
    /\ Returned("extractKeyInfo") /\ ret.t # "thrown"
    /\ Len(ret.f.codes.a) = 1
    /\ Cardinality(CodeRuns(KeyInfoText(arg.subject, arg.body))) = 2
    /\ CodeMatches(StringOf(arg.subject)) # <<>>
    /\ \E i \in 1..Len(arg.body.s) : IsDigit(arg.body.s[i]) /\ ~IsCodeStart(arg.body.s, i)
           /\ (i = 1 \/ ~IsDigit(arg.body.s[i - 1]))

\* the place of a word in the vocabulary
VocabularyIndex(w) == CHOOSE i \in 1..Len(actionWords) : Str(actionWords[i]) = w

\* the actions are words of the vocabulary, in its order, each at most once
InVocabularyOrder(actions) ==
    /\ \A k \in 1..Len(actions) : \E i \in 1..Len(actionWords) : Str(actionWords[i]) = actions[k]
    /\ \A k, l \in 1..Len(actions) :
           k < l => VocabularyIndex(actions[k]) < VocabularyIndex(actions[l])

\* C20 as stated: the actions of extractKeyInfo contain a vocabulary term of
\* (verify, confirm, activate, login, reset, update) if and only if that
\* term occurs, case-insensitively, as a substring anywhere in
\* subject + body; the terms appear in vocabulary order and each at most
\* once.
C20_Actions ==
    (Returned("extractKeyInfo") /\ ret.t # "thrown") =>
        LET text == Str(StringOf(arg.subject) \o StringOf(arg.body))
            actions == ret.f.actions.a
        IN /\ \A i \in 1..Len(actionWords) :
                  Str(actionWords[i]) \in Range(actions) <=> ContainsCI(text, actionWords[i])
           /\ InVocabularyOrder(actions)

\* C20 (amended): the actions contain a vocabulary term if and only if that
\* term occurs, case-insensitively, as a substring of subject + " " + body,
\* the two joined by a space (a term that is split between the end of the
\* subject and the start of the body does not count); the terms appear in
\* vocabulary order and each at most once.
C20_ActionsOfJoinedText ==
    (Returned("extractKeyInfo") /\ ret.t # "thrown") =>
        LET text == Str(KeyInfoText(arg.subject, arg.body))
            actions == ret.f.actions.a
        IN /\ \A i \in 1..Len(actionWords) :
                  Str(actionWords[i]) \in Range(actions) <=> ContainsCI(text, actionWords[i])
           /\ InVocabularyOrder(actions)

\* a body with login in two cases before verify gave verify, then login
C20_Witness ==
    /\ Returned("extractKeyInfo") /\ ret.t # "thrown"
    /\ arg.subject = Empty
    /\ ret.f.actions.a = <<Str(AW_VERIFY), Str(AW_LOGIN)>>
    /\ ~Includes(arg.body.s, AW_LOGIN) /\ ~Includes(arg.body.s, AW_VERIFY)
    /\ arg.body.s[1] = "L"

(***************************************************************************)
(* Claims about the totality of categorizeEmail and extractKeyInfo.        *)
(***************************************************************************)
\* the value is missing or has a type other than string
MissingOrWrongTyped(v) == v.t # "string"

\* C21: categorizeEmail and extractKeyInfo are total: for every combination
\* of subject, sender and body, a missing (null or undefined) or wrong-typed
\* subject, sender or body included, each returns a value built from the
\* defaults (a label, an object of four arrays) and never throws.
C21_Total ==
    /\ Returned("categorizeEmail") => ret \in Labels
    /\ Returned("extractKeyInfo") =>
           ret.t = "object" /\ \A k \in {"codes", "links", "dates", "actions"} : ret.f[k].t = "array"

\* a missing subject, sender and body gave the default label, and a missing
\* subject with a body that is a string gave the four arrays
C21_Witness ==
    \/ /\ Returned("categorizeEmail")
       /\ \A v \in {arg.subject, arg.sender, arg.body} : v = Undefined
       /\ ret = General
    \/ /\ Returned("extractKeyInfo")
       /\ MissingOrWrongTyped(arg.subject) /\ arg.body = Empty
       /\ ret.t = "object"

(***************************************************************************)
(* Claims about the arguments the label depends on.                        *)
(***************************************************************************)
\* C28: the label returned by categorizeEmail does not depend on the body
\* argument: for every subject and sender, two calls that differ only in
\* body return the same label; and over the bodies that are strings or
\* falsy the whole outcome of the call is the same.
C28_BodyIndependent ==
    Returned("categorizeEmail") =>
        \A b \in CategorizeBodies :
            LET other == categorizeEmail(arg.subject, arg.sender, b)
            IN /\ (ret \in Labels /\ other \in Labels) => other = ret
               /\ (\A v \in {b, arg.body} : TypeOf(v) = "string" \/ ~Truthy(v)) => other = ret

\* a call whose body has a security word, a marketing word and six digits
\* returned general, as does the call without a body
C28_Witness ==
    /\ Returned("categorizeEmail")
    /\ arg.body.t = "string" /\ IncludesAny(arg.body.s, SecurityWords)
    /\ IncludesAny(arg.body.s, MarketingWords) /\ HasSixDigits(arg.body)
    /\ ret = General
    /\ categorizeEmail(arg.subject, arg.sender, Undefined) = General

(***************************************************************************)
(* Claims about the two EmailUtils classes.                                *)
(***************************************************************************)
\* C29: the exported EmailUtils of email-utils.js and the EmailUtils of the
\* service agree: for every input, htmlToText and extractSender of the two
\* classes return equal results, and generatePreview of the two returns
\* equal results when given the same HTML body and plain body.
C29_ClassesAgree ==
    /\ Returned("htmlToText") => ret = htmlToText(arg.html)
    /\ Returned("extractSender") => ret = extractSender(arg.attendeeObj)
    /\ Returned("generatePreview") =>
           ret = generatePreview(arg.body, arg.plainBody, arg.maxLength)

\* the inputs the two classes do agree on: a bracketed sender, and markup
\* with a tag and an entity both decode
C29_Witness ==
    \/ /\ Returned("extractSender") /\ arg.attendeeObj.t = "string"
       /\ BracketMatch(arg.attendeeObj.s) # <<>>
       /\ ret = extractSender(arg.attendeeObj) /\ ret.f.name # Empty
    \/ /\ Returned("htmlToText") /\ arg.html.t = "string"
       /\ Contains(arg.html.s, <<"&", "l", "t", ";">>) /\ Contains(arg.html.s, <<"<", "b", ">">>)
       /\ ret = htmlToText(arg.html) /\ ret.s # <<>>

(***************************************************************************)
(* Claims about requests in progress at once.                              *)
(***************************************************************************)
\* the request has returned a value
Answered(r) == pc[r] = "done" /\ ret[r].t = "object"

Responded(route) == pc = "done" /\ op = route

\* the places of the events of a kind in trace, and the requests sent, in
\* order
Places(kind) == {k \in 1..Len(trace) : trace[k].e = kind}
Sends == SelectSeq(trace, LAMBDA m : m.e = "send")

\* delayBetweenEmails with its default
DelayUsed == Default(Get(arg, "delayBetweenEmails"), Num(DefaultDelay))

\* two send attempts with no other send attempt between them
Consecutive(k, l) ==
    /\ k \in Places("send") /\ l \in Places("send") /\ k < l
    /\ \A j \in (k + 1)..(l - 1) : trace[j].e # "send"

\* C23: in a bulk send with delayBetweenEmails > 0, the handler waits
\* delayBetweenEmails between every two consecutive send attempts, whether
\* the earlier attempt succeeded or failed, and waits no delay after the
\* attempt for the last recipient.
C23_DelayBetweenAttempts ==
    (Responded("sendBulk") /\ ret.status = Ok /\ GreaterThanZero(DelayUsed)) =>
        /\ \A k, l \in 1..Len(trace) :
               Consecutive(k, l) =>
                   \E d \in (k + 1)..(l - 1) : trace[d] = [e |-> "delay", ms |-> DelayUsed]
        /\ \A d \in Places("delay") : \E l \in Places("send") : l > d

\* three sends that succeeded, with a wait after the first and the second
\* and none after the third
C23_Witness ==
    /\ Responded("sendBulk") /\ ret.status = Ok /\ GreaterThanZero(DelayUsed)
    /\ Len(Sends) = 3 /\ Cardinality(Places("delay")) = 2
    /\ \A k \in Places("answer") : trace[k].ok
    /\ trace[Len(trace)] = Answer(TRUE)

\* an array that is not empty, of addresses and of objects with an address
ValidRecipients(recipients) ==
    /\ IsArray(recipients) /\ recipients.a # <<>>
    /\ \A i \in 1..Len(recipients.a) :
           LET r == recipients.a[i]
           IN \/ r.t = "string" /\ r.s # <<>>
              \/ r.t = "object" /\ Get(r, "email").t = "string" /\ Get(r, "email").s # <<>>

\* the places 1..n for which keep holds, in order
Kept(n, keep(_)) == SelectSeq([i \in 1..n |-> i], keep)

\* every recipient was attempted once, in array order and one at a time,
\* and is recorded in results when its send succeeded and in errors when it
\* failed
EachAttemptedOnce ==
    LET recipients == Get(arg, "recipients").a
        n == Len(recipients)
        place(i) == CHOOSE k \in Places("send") :
                        Cardinality({j \in Places("send") : j <= k}) = i
        ok(i) == trace[place(i) + 1].ok
        sent == Kept(n, LAMBDA i : ok(i))
        failed == Kept(n, LAMBDA i : ~ok(i))
        results == ret.data.results
        errors == ret.data.errors
    IN /\ ret.status = Ok
       /\ Len(Sends) = n
       /\ \A i \in 1..n : Sends[i].to = formatRecipients(RecipientEmail(recipients[i]))
       /\ \A k \in Places("send") : k < Len(trace) /\ trace[k + 1].e = "answer"
       /\ Len(results) = Len(sent) /\ Len(errors) = Len(failed)
       /\ \A j \in 1..Len(sent) : results[j].email = RecipientEmail(recipients[sent[j]])
       /\ \A j \in 1..Len(failed) : errors[j].email = RecipientEmail(recipients[failed[j]])
       /\ ret.data.summary.successful + ret.data.summary.failed = n
       /\ ret.data.summary.totalRecipients = n
       /\ ret.data.summary.successful = Len(results)
       /\ ret.data.summary.failed = Len(errors)

\* C24 as stated: a bulk send over a valid non-empty recipients array
\* attempts each recipient exactly once, in array order and one at a time;
\* a failed send never prevents the attempts for the later ones; when the
\* handler responds, every recipient is recorded in exactly one of results
\* (sent) or errors (failed), so successful + failed = totalRecipients.
C24_EachRecipientOnce ==
    (Responded("sendBulk") /\ ret.status # BadRequest
        /\ ValidRecipients(Get(arg, "recipients"))) => EachAttemptedOnce

\* C24 (amended): the same, for a body that is a string.  With a body that
\* is no string a recipient with a name is recorded in errors without a
\* send attempt.
C24_EachRecipientOnceStringBody ==
    (Responded("sendBulk") /\ ret.status # BadRequest
        /\ ValidRecipients(Get(arg, "recipients"))
        /\ TypeOf(Get(arg, "body")) = "string") => EachAttemptedOnce

\* three recipients, the send to the first failed and the sends to the
\* second and the third succeeded
C24_Witness ==
    /\ Responded("sendBulk") /\ ret.status = Ok
    /\ ValidRecipients(Get(arg, "recipients")) /\ TypeOf(Get(arg, "body")) = "string"
    /\ Len(Sends) = 3 /\ Len(ret.data.errors) = 1 /\ Len(ret.data.results) = 2
    /\ ret.data.errors[1].email = RecipientEmail(Get(arg, "recipients").a[1])
    /\ Sends[2].body # Get(arg, "body")

(***************************************************************************)
(* Claims about the reply.                                                 *)
(***************************************************************************)
\* C25: the reply handler sends the reply only after the fetch of the
\* original email has succeeded: in every execution the send to the
\* provider is preceded by a successful get-by-id of the original, and when
\* that fetch fails no send is attempted and the response is a 500 failure.
C25_SendAfterFetch ==
    op = "reply" =>
        /\ \A k \in Places("send") :
               \E g \in 1..(k - 2) : trace[g].e = "get" /\ trace[g + 1] = Answer(TRUE)
        /\ \A g \in Places("get") :
               (g < Len(trace) /\ trace[g + 1] = Answer(FALSE)) =>
                   /\ Places("send") = {}
                   /\ pc = "done" /\ ret.status = ServerError

\* a reply was sent after the fetch, and the provider accepted it
C25_Witness ==
    /\ Responded("reply") /\ ret.status = Ok
    /\ Len(trace) = 4 /\ trace[1].e = "get" /\ trace[2] = Answer(TRUE)
    /\ trace[3].e = "send" /\ trace[4] = Answer(TRUE)

\* the identifiers a request to the provider is addressed to
Addressees(m) == {m.to.a[i].f.identifier : i \in 1..Len(m.to.a)}

\* C26: the reply handler never sends a reply addressed to the sentinel
\* "Unknown": when the sender of the original email could not be resolved,
\* no send to the provider is made with "Unknown" as recipient.
C26_NoReplyToUnknown ==
    op = "reply" => \A k \in Places("send") : Unknown \notin Addressees(trace[k])

\* a reply was sent to the sender of the original, which was resolved
C26_Witness ==
    /\ Responded("reply") /\ ret.status = Ok
    /\ Addressees(trace[3]) = {Str(<<"e", "@", "x", ".", "y">>)}
    /\ trace[3].subject = Str(<<"R", "e", ":", " ", "x">>)

(***************************************************************************)
(* Claims about the checks of the send endpoints.                          *)
(***************************************************************************)
\* the fields a route requires
Required(route) ==
    CASE route = "send" -> {"to", "subject", "body"}
      [] route = "sendHtml" -> {"to", "subject", "htmlContent"}
      [] route = "sendProfessional" -> {"to", "subject", "content"}
      [] route = "sendBulk" -> {"recipients", "subject", "body"}
      [] route = "reply" -> {"body"}

\* the request has no value for a field the route requires
MissingRequired == \E k \in Required(op) : Get(arg, k) \in {Undefined, Null}

\* C27: for every send endpoint (basic, html, professional, bulk, reply), a
\* request missing a required field gets a 400 response and causes no
\* request to the provider: sendEmail and getEmailById are never invoked in
\* an execution that ends in a 400.
C27_MissingFieldIs400 ==
    /\ MissingRequired => trace = <<>>
    /\ (MissingRequired /\ pc = "done") => ret.status = BadRequest
    /\ (pc = "done" /\ ret.status = BadRequest) => trace = <<>>

\* a bulk send with recipients and a body and without a subject got 400; so
\* did a send to two recipients without a body
C27_Witness ==
    /\ pc = "done" /\ ret.status = BadRequest /\ trace = <<>>
    /\ \/ /\ op = "sendBulk" /\ ValidRecipients(Get(arg, "recipients"))
          /\ Get(arg, "subject") = Undefined /\ Get(arg, "body") = Text
       \/ /\ op = "send" /\ IsArray(Get(arg, "to"))
          /\ Get(arg, "subject") = Subject /\ Get(arg, "body") = Undefined

====
